---- MODULE Spec2Model ----
(***************************************************************************)
(* WireGuardManager (wg_manager/core.py): the profile activation engine    *)
(* with its retry-aware privileged command runner, as a state machine.     *)
(*                                                                         *)
(* Threads of the presentation layer call the public operations of one     *)
(* manager.  A thread is suspended only where the code can block on       *)
(* another thread: at the acquisition of self._lock and inside             *)
(* subprocess.run.  Everything a thread does between two such points is    *)
(* one step; time.sleep between attempts holds no lock and is counted in   *)
(* the step that ends the failed attempt.                                  *)
(*                                                                         *)
(* Text is modelled as text: outputs, messages and profile names are       *)
(* strings, and lower(), strip(), split() and the `in` substring test are  *)
(* computed character by character.  The Russian literals of the source    *)
(* are transliterated to ASCII, letter for letter in case.                 *)
(*                                                                         *)
(* The external tools are the environment: an invocation may exit 0, exit  *)
(* non-zero with any of the stderr texts below, run into the timeout, or   *)
(* fail to start.  `wg-quick up X` that exits 0 leaves interface X up,     *)
(* `wg-quick down X` that exits 0 leaves it down; an invocation that fails *)
(* changes no tunnel.                                                      *)
(***************************************************************************)
EXTENDS Integers, Sequences, FiniteSets, TLC

VARIABLES
    profiles,        \* self.profiles: the configured list
    fs,              \* /etc/wireguard: name -> state of <name>.conf
    tunnels,         \* interfaces that are up, oldest first (what `wg show` lists)
    initTunnels,     \* history: tunnels of the initial state
    lock,            \* self._lock, an RLock: [owner, count]
    active_profile,  \* self._active_profile, the cached hint
    th,              \* per thread: position, call frame, locals
    env,             \* the ways an invocation can fail on this system
    calls,           \* history: number of public calls started so far
    skipped,         \* history: an activate_profile went on past a failed status
                     \* query or a failed deactivation
    recording,       \* whether the threads keep the history of their operations
    _profiles_cache, \* self._profiles_cache: profile -> ProfileInfo
    _manager_instance, \* the module variable: the instance it holds, NoInstance for None
    instances,       \* history: number of WireGuardManager() constructed by get_manager
    _is_refreshing,  \* WireGuardManagerApp._is_refreshing
    _refresh_start_time, \* its _refresh_start_time, NoTime while it has no such attribute
    now,             \* time.time(), in ticks of TickSeconds
    refresh_tasks,   \* per thread: when the refresh_task it runs was started, NoTime if none
    refresh_log      \* history: what the window logged last about a refresh

vars ==
    <<profiles, fs, tunnels, initTunnels, lock, active_profile, th, env, calls, skipped,
      recording, _profiles_cache, _manager_instance, instances,
      _is_refreshing, _refresh_start_time, now, refresh_tasks, refresh_log>>

----------------------------------------------------------------------------
(* Bounds of the model *)

NumThreads == 2
MaxCalls == 2
MaxInitUp == 1
MaxAttemptsArg == 4
MaxInitUpSeq == 2
MaxStatusUp == 2
MaxTime == 4
MaxRefreshes == 3
FractionChunks == 8

Threads == 1..NumThreads
NoThread == 0
NoTime == -1

\* the module variable holding None
NoInstance == 0

----------------------------------------------------------------------------
(* Text *)

UpperCase == "ABCDEFGHIJKLMNOPQRSTUVWXYZ"
LowerCase == "abcdefghijklmnopqrstuvwxyz"

Char(s, i) == SubSeq(s, i, i)

LowerTable == [i \in 1..26 |-> Char(LowerCase, i)]
UpperSet == {Char(UpperCase, i) : i \in 1..26}
UpperIndex == [c \in UpperSet |-> CHOOSE i \in 1..26 : Char(UpperCase, i) = c]

LowerChar(c) == IF c \in UpperSet THEN LowerTable[UpperIndex[c]] ELSE c

RECURSIVE LowerFrom(_, _)
LowerFrom(s, i) == IF i > Len(s) THEN "" ELSE LowerChar(Char(s, i)) \o LowerFrom(s, i + 1)

\* str.lower()
Lower(s) == LowerFrom(s, 1)

\* needle in hay
Contains(needle, hay) ==
    \E i \in 1..(Len(hay) - Len(needle) + 1) : SubSeq(hay, i, i + Len(needle) - 1) = needle

IsSpace(c) == c \in {" ", "\n", "\t"}

RECURSIVE FirstNonSpace(_, _)
FirstNonSpace(s, i) == IF i > Len(s) \/ ~IsSpace(Char(s, i)) THEN i ELSE FirstNonSpace(s, i + 1)

RECURSIVE LastNonSpace(_, _)
LastNonSpace(s, i) == IF i < 1 \/ ~IsSpace(Char(s, i)) THEN i ELSE LastNonSpace(s, i - 1)

\* str.strip()
Strip(s) == SubSeq(s, FirstNonSpace(s, 1), LastNonSpace(s, Len(s)))

\* index of the first sep at or after i, Len(s) + 1 when there is none
RECURSIVE Find(_, _, _)
Find(s, sep, i) == IF i > Len(s) \/ Char(s, i) = sep THEN i ELSE Find(s, sep, i + 1)

\* str.split(sep) for a one-character separator
RECURSIVE SplitFrom(_, _, _)
SplitFrom(s, sep, i) ==
    LET j == Find(s, sep, i)
    IN  IF j > Len(s) THEN <<SubSeq(s, i, Len(s))>>
        ELSE <<SubSeq(s, i, j - 1)>> \o SplitFrom(s, sep, j + 1)

Split(s, sep) == SplitFrom(s, sep, 1)

Digits == "0123456789"

\* str(n) for n >= 0
RECURSIVE IntStr(_)
IntStr(n) == IF n < 10 THEN Char(Digits, n + 1) ELSE IntStr(n \div 10) \o Char(Digits, (n % 10) + 1)

\* sep.join(parts)
RECURSIVE Join(_, _)
Join(sep, parts) ==
    IF parts = <<>> THEN ""
    ELSE IF Len(parts) = 1 THEN parts[1]
    ELSE parts[1] \o sep \o Join(sep, Tail(parts))

----------------------------------------------------------------------------
(* Optional[str] *)

None == [some |-> FALSE, val |-> ""]
Some(x) == [some |-> TRUE, val |-> x]

----------------------------------------------------------------------------
(* float and int *)

\* str.replace(old, ''), old not empty
RECURSIVE Without(_, _, _)
Without(s, old, i) ==
    IF i > Len(s) THEN ""
    ELSE IF i + Len(old) - 1 <= Len(s) /\ SubSeq(s, i, i + Len(old) - 1) = old
    THEN Without(s, old, i + Len(old))
    ELSE Char(s, i) \o Without(s, old, i + 1)

DigitSet == {Char(Digits, i) : i \in 1..10}
DigitValue == [c \in DigitSet |-> CHOOSE n \in 0..9 : Char(Digits, n + 1) = c]

AllDigits(s) == \A i \in 1..Len(s) : Char(s, i) \in DigitSet

\* the number the first i digits of s write
RECURSIVE NatUpTo(_, _)
NatUpTo(s, i) == IF i = 0 THEN 0 ELSE 10 * NatUpTo(s, i - 1) + DigitValue[Char(s, i)]

\* the number a string of digits writes, 0 for the empty string
NatOf(s) == NatUpTo(s, Len(s))

RECURSIVE Power(_, _)
Power(b, n) == IF n = 0 THEN 1 ELSE b * Power(b, n - 1)

\* F(v), with v evaluated once
Once(F(_), v) == CHOOSE y \in {F(x) : x \in {v}} : TRUE

\* float() of the text r that follows the sign, whose first "." (if any) is
\* at j: kind "finite" with the decimal num / den, kind "inf" or "nan", or
\* kind "invalid" (ValueError). Literals with an exponent or with
\* underscores are not read: no text of this model has one.
Unsigned(neg, r, j) ==
    IF r \in {"inf", "infinity"} THEN [kind |-> "inf", neg |-> neg, num |-> 0, den |-> 1]
    ELSE IF r = "nan" THEN [kind |-> "nan", neg |-> neg, num |-> 0, den |-> 1]
    ELSE IF /\ AllDigits(SubSeq(r, 1, j - 1))
            /\ AllDigits(SubSeq(r, j + 1, Len(r)))
            /\ j > 1 \/ j < Len(r)
    THEN [kind |-> "finite", neg |-> neg,
          num |-> NatOf(SubSeq(r, 1, j - 1) \o SubSeq(r, j + 1, Len(r))),
          den |-> Power(10, IF j > Len(r) THEN 0 ELSE Len(r) - j)]
    ELSE [kind |-> "invalid", neg |-> FALSE, num |-> 0, den |-> 1]

\* float() of a text without surrounding white space
Stripped(s) ==
    IF s # "" /\ Char(s, 1) \in {"+", "-"}
    THEN Once(LAMBDA r : Unsigned(Char(s, 1) = "-", r, Find(r, ".", 1)), SubSeq(s, 2, Len(s)))
    ELSE Unsigned(FALSE, s, Find(s, ".", 1))

\* the text float() is given, read as a literal
Literal(text) == Once(LAMBDA s : Stripped(s), Strip(text))

\* the significand of a float has 53 bits
Precision == 53

\* n in binary, most significant bit first, <<>> for 0
RECURSIVE BitsOfNat(_)
BitsOfNat(n) == IF n = 0 THEN <<>> ELSE Append(BitsOfNat(n \div 2), n % 2)

\* the number the first i bits write
RECURSIVE NatOfBitsUpTo(_, _)
NatOfBitsUpTo(bits, i) == IF i = 0 THEN 0 ELSE 2 * NatOfBitsUpTo(bits, i - 1) + bits[i]

NatOfBits(bits) == NatOfBitsUpTo(bits, Len(bits))

\* bits + 1: the last 0 becomes 1 and the ones after it 0
Incr(bits) ==
    LET zeros == {i \in 1..Len(bits) : bits[i] = 0}
    IN  IF zeros = {} THEN <<1>> \o [i \in 1..Len(bits) |-> 0]
        ELSE LET z == CHOOSE i \in zeros : \A j \in zeros : j <= i
             IN  [i \in 1..Len(bits) |-> IF i < z THEN bits[i] ELSE IF i = z THEN 1 ELSE 0]

\* a finite float is [neg, bits, exp]: bits, most significant first and
\* starting with 1, at most Precision of them, times 2^exp; <<>> is zero.
\* RoundBits is round-half-to-even of bits * 2^exp (plus something below
\* the last bit when sticky) to Precision bits.
RoundBits(neg, bits, exp, sticky) ==
    IF Len(bits) <= Precision THEN [neg |-> neg, bits |-> bits, exp |-> exp]
    ELSE LET keep == SubSeq(bits, 1, Precision)
             rest == SubSeq(bits, Precision + 1, Len(bits))
             below == sticky \/ \E i \in 2..Len(rest) : rest[i] = 1
             up == rest[1] = 1 /\ (below \/ keep[Precision] = 1)
             kept == IF up THEN Incr(keep) ELSE keep
         IN  IF Len(kept) > Precision
             THEN [neg |-> neg, bits |-> SubSeq(kept, 1, Precision),
                   exp |-> exp + Len(rest) + 1]
             ELSE [neg |-> neg, bits |-> kept, exp |-> exp + Len(rest)]

\* the remainder of r * 2^(10 j) by den
RECURSIVE Rem(_, _, _)
Rem(r, den, j) == IF j = 0 THEN r ELSE (Rem(r, den, j - 1) * 1024) % den

\* bit i after the binary point of r / den, for r < den
FractionBit(r, den, i) ==
    (((Rem(r, den, (i - 1) \div 10) * 1024) \div den) \div Power(2, 9 - ((i - 1) % 10))) % 2

\* the float for all / 2^(10 FractionChunks), rounded
Normal(neg, all, sticky) ==
    LET ones == {i \in 1..Len(all) : all[i] = 1}
    IN  IF ones = {} THEN [neg |-> neg, bits |-> <<>>, exp |-> 0]
        ELSE RoundBits(neg, SubSeq(all, CHOOSE i \in ones : \A j \in ones : i <= j, Len(all)),
                       0 - 10 * FractionChunks, sticky)

\* float(text) for a finite literal: the float nearest to num / den, from
\* the binary expansion of num / den to FractionChunks times ten places
FloatOf(lit) ==
    Once(LAMBDA all : Normal(lit.neg, all, Rem(lit.num % lit.den, lit.den, FractionChunks) # 0),
         BitsOfNat(lit.num \div lit.den)
             \o [i \in 1..(10 * FractionChunks) |-> FractionBit(lit.num % lit.den, lit.den, i)])

\* the bits of bits * k, for k >= 2
RECURSIVE MulLow(_, _, _, _)
MulLow(bits, k, i, carry) ==
    IF i = 0 THEN BitsOfNat(carry)
    ELSE LET t == bits[i] * k + carry
         IN  IF t % 2 = 0 THEN Append(MulLow(bits, k, i - 1, t \div 2), 0)
             ELSE Append(MulLow(bits, k, i - 1, t \div 2), 1)

\* x * k for a float x and an int k: the product, rounded
Times(x, k) ==
    IF x.bits = <<>> THEN x
    ELSE Once(LAMBDA product : RoundBits(x.neg, product, x.exp, FALSE),
              MulLow(x.bits, k, Len(x.bits), 0))

\* x * k1 * k2 ..., left to right
RECURSIVE TimesAll(_, _)
TimesAll(x, factors) ==
    IF factors = <<>> THEN x
    ELSE Once(LAMBDA y : TimesAll(y, Tail(factors)), Times(x, Head(factors)))

\* int(x): the fraction is dropped
IntOf(x) ==
    LET n == IF x.exp >= 0 THEN NatOfBits(x.bits \o [i \in 1..x.exp |-> 0])
             ELSE IF Len(x.bits) + x.exp <= 0 THEN 0
             ELSE NatOfBits(SubSeq(x.bits, 1, Len(x.bits) + x.exp))
    IN  IF x.neg THEN 0 - n ELSE n

----------------------------------------------------------------------------
(* _parse_transfer *)

\* int(float(text) * k1 * k2 ...), 0 when float() or int() raises
scaled(text, factors) ==
    LET lit == Literal(text)
    IN  IF lit.kind # "finite" THEN 0
        ELSE Once(LAMBDA x : Once(LAMBDA y : IntOf(y), TimesAll(x, factors)), FloatOf(lit))

\* the first unit of _parse_transfer's chain of tests that is in v, with its
\* factors; the empty unit when none is (the else branch)
unit_in(v) ==
    CASE Contains("kib", v) -> <<"kib", <<1024>>>>
      [] Contains("mib", v) -> <<"mib", <<1024, 1024>>>>
      [] Contains("gib", v) -> <<"gib", <<1024, 1024, 1024>>>>
      [] Contains("kb", v) -> <<"kb", <<1000>>>>
      [] Contains("mb", v) -> <<"mb", <<1000, 1000>>>>
      [] Contains("gb", v) -> <<"gb", <<1000, 1000, 1000>>>>
      [] OTHER -> <<"", <<>>>>

\* _parse_transfer once value_str is in lower case: the branch of the unit
\* removes it, strips the rest and scales it; the else branch reads v as it is
parse_lower(v) ==
    Once(LAMBDA u : scaled(IF u[1] = "" THEN v ELSE Strip(Without(v, u[1], 1)), u[2]),
         unit_in(v))

parse_transfer(value_str) == Once(LAMBDA v : parse_lower(v), Lower(value_str))

----------------------------------------------------------------------------
(* WireGuardManager.__init__ *)

timeout_wg_quick == 60
timeout_wg_show == 30
max_retries == 3

\* the timeout the readiness check of the window passes
timeout_check == 10

DefaultProfiles == <<"App", "bomBox", "usa">>

\* lists a config.json may hold (_load_config keeps any list it finds)
ConfiguredLists == {<<"Work", "work2">>}

ProfileLists == {DefaultProfiles} \cup ConfiguredLists

Range(seq) == {seq[i] : i \in 1..Len(seq)}

\* a name that is in no list and has no artifact, and one that has an artifact
GhostName == "Ghost"
ExtraName == "wg0"

Names == UNION {Range(l) : l \in ProfileLists} \cup {GhostName, ExtraName}

\* profile names a caller may pass
ArgsFor(plist) == Range(plist) \cup {GhostName, ExtraName}

\* interfaces this model brings up or finds up: those that have an artifact
Interfaces(plist) == Range(plist) \cup {ExtraName}

\* sequences of distinct elements of S, at most n long
RECURSIVE Arrangements(_, _)
Arrangements(S, n) ==
    IF n = 0 THEN {<<>>}
    ELSE LET shorter == Arrangements(S, n - 1)
         IN  shorter \cup UNION {{Append(q, x) : x \in S \ Range(q)} :
                                    q \in {r \in shorter : Len(r) = n - 1}}

\* every list of interfaces that can be up
TunnelLists(plist) == Arrangements(Interfaces(plist), Cardinality(Interfaces(plist)))

\* interfaces an outside actor may have named as it liked
StatusInterfaces == {"wg0", "wg-bombox", "App", "USA-2", "Work", "work2"}

\* the lists of them `wg show` may have to report
StatusLists == Arrangements(StatusInterfaces, MaxStatusUp)

\* state of an artifact <config-dir>/<name>.conf:
\*   absent      no such file
\*   ok          readable, holds the text [Interface]
\*   nosection   readable, does not hold it
\*   unreadable  the file exists, reading it raises PermissionError
\*   noaccess    the directory cannot be searched: exists() and read raise PermissionError
\*   undecodable readable, not UTF-8: reading it raises UnicodeDecodeError
\*   oserror     exists() and read raise an OSError that is no PermissionError
FileStates ==
    {"absent", "ok", "nosection", "unreadable", "noaccess", "undecodable", "oserror"}

\* a system-managed directory the process sees in part: the first artifact
\* is in order, the second cannot be read, a third lacks its section
MixedFs(plist) ==
    [n \in Names |->
        IF n = plist[1] \/ n = ExtraName THEN "ok"
        ELSE IF n = plist[2] THEN "unreadable"
        ELSE IF n \in Range(plist) THEN "nosection"
        ELSE "absent"]

FsChoices(plist) == {MixedFs(plist)}

\* a directory that does not exist holds no artifact
NoFiles == [n \in Names |-> "absent"]

\* the first configured artifact and one that is not configured in every
\* state, the other configured artifacts in order
AnyFs(plist) ==
    {[n \in Names |->
        IF n = plist[1] THEN a
        ELSE IF n = GhostName THEN b
        ELSE IF n \in Range(plist) THEN "ok"
        ELSE "absent"] : a \in FileStates, b \in FileStates}

----------------------------------------------------------------------------
(* Profile registry and validator *)

\* Path.exists(): "True" / "False", or the exception it raises
PathExists(name) ==
    CASE fs[name] = "absent" -> "False"
      [] fs[name] = "noaccess" -> "PermissionError"
      [] fs[name] = "oserror" -> "OSError"
      [] OTHER -> "True"

\* a check that asks the filesystem about configured names too
check_profile_exists_on_disk(profile_name) == PathExists(profile_name) = "True"

\* every name is taken to exist
check_profile_exists_always(profile_name) == TRUE

check_profile_exists(profile_name) ==
    IF profile_name \in Range(profiles) THEN TRUE
    ELSE PathExists(profile_name) = "True"

\* Path.read_text(): the exception raised ("" for none) and the text read
ReadText(name) ==
    CASE fs[name] = "absent" -> [raised |-> "FileNotFoundError", text |-> ""]
      [] fs[name] \in {"unreadable", "noaccess"} -> [raised |-> "PermissionError", text |-> ""]
      [] fs[name] = "undecodable" -> [raised |-> "UnicodeDecodeError", text |-> ""]
      [] fs[name] = "oserror" -> [raised |-> "OSError", text |-> ""]
      [] fs[name] = "ok" -> [raised |-> "", text |-> "[Interface]\nPrivateKey = xxx"]
      [] OTHER -> [raised |-> "", text |-> "Invalid config"]

Pair(ok, out) == [ok |-> ok, out |-> out]

\* a validator that does not read the artifact of a configured profile
validate_profile_skipping_configured(profile_name) ==
    IF ~check_profile_exists(profile_name)
    THEN Pair(FALSE, "Profil " \o profile_name \o " ne sushchestvuet")
    ELSE IF profile_name \in Range(profiles)
    THEN Pair(TRUE, "Standartnyi profil, proverka ne trebuetsya")
    ELSE LET content == ReadText(profile_name)
         IN  IF content.raised \in {"PermissionError", "FileNotFoundError"}
             THEN Pair(TRUE, "Proverka prav dostupa ne udalas, predpolagaem validnost")
             ELSE IF content.raised # ""
                  THEN Pair(FALSE, "Oshibka chteniya faila: " \o content.raised)
             ELSE IF ~Contains("[Interface]", content.text)
                  THEN Pair(FALSE, "Otsutstvuet sektsiya [Interface]")
                  ELSE Pair(TRUE, "OK")

\* a validator that passes every profile
validate_profile_always_ok(profile_name) == Pair(TRUE, "OK")

validate_profile(profile_name) ==
    IF ~check_profile_exists(profile_name)
    THEN Pair(FALSE, "Profil " \o profile_name \o " ne sushchestvuet")
    ELSE LET content == ReadText(profile_name)
         IN  IF content.raised \in {"PermissionError", "FileNotFoundError"}
             THEN IF profile_name \in Range(profiles)
                  THEN Pair(TRUE, "Standartnyi profil, proverka ne trebuetsya")
                  ELSE Pair(TRUE, "Proverka prav dostupa ne udalas, predpolagaem validnost")
             ELSE IF content.raised # ""
                  THEN Pair(FALSE, "Oshibka chteniya faila: " \o content.raised)
             ELSE IF ~Contains("[Interface]", content.text)
                  THEN Pair(FALSE, "Otsutstvuet sektsiya [Interface]")
                  ELSE Pair(TRUE, "OK")

----------------------------------------------------------------------------
(* Commands and the environment *)

WgShow == <<"wg", "show">>
WgQuickUp(p) == <<"wg-quick", "up", p>>
WgQuickDown(p) == <<"wg-quick", "down", p>>
NoCommand == <<>>

\* stderr texts of a non-zero exit
StderrTexts == {
    "Error message",
    "Permission denied",
    "wg-quick: command not found",
    "Error executing command as another user: Not authorized",
    "Authentication canceled" }

ExceptionTexts == {"Unexpected error"}

RECURSIVE ShowText(_)
ShowText(ifaces) ==
    IF ifaces = <<>> THEN ""
    ELSE "interface: " \o Head(ifaces) \o "\n  public key: xxx\n"
         \o (IF Len(ifaces) > 1 THEN "\n" ELSE "") \o ShowText(Tail(ifaces))

\* ShowText, evaluated once for every list of interfaces
ShowTextOf ==
    [a \in UNION {TunnelLists(pl) : pl \in ProfileLists} \cup StatusLists |-> ShowText(a)]

\* the amounts of a transfer line, as wg writes them: number, unit
TransferAmounts == {
    [rx |-> <<"1.5", "KiB">>, tx |-> <<"2", "MiB">>],
    [rx |-> <<"92", "B">>, tx |-> <<"148", "B">>] }

TransferLine(a) ==
    a.rx[1] \o " " \o a.rx[2] \o " received, " \o a.tx[1] \o " " \o a.tx[2] \o " sent"

TransferLines == {TransferLine(a) : a \in TransferAmounts}

\* `wg show` for interfaces that each have one peer with the given transfer
RECURSIVE ShowPeers(_, _)
ShowPeers(ifaces, transfer) ==
    IF ifaces = <<>> THEN ""
    ELSE "interface: " \o Head(ifaces) \o "\n  public key: xxx\n"
         \o "\npeer: yyy\n  transfer: " \o transfer \o "\n"
         \o (IF Len(ifaces) > 1 THEN "\n" ELSE "") \o ShowPeers(Tail(ifaces), transfer)

\* the lists of interfaces that are up when the profile information is read
PeerLists(plist) == Arrangements(Interfaces(plist), MaxInitUpSeq)

\* ShowPeers, evaluated once for every transfer line and list of interfaces
ShowPeersOf ==
    [x \in TransferLines |->
        [a \in UNION {PeerLists(pl) : pl \in ProfileLists} |-> ShowPeers(a, x)]]

\* what exit 0 prints
Stdout(command, ifaces) ==
    IF command # WgShow THEN ""
    ELSE IF env.transfer = "" THEN ShowTextOf[ifaces]
    ELSE ShowPeersOf[env.transfer][ifaces]

\* every way to fail, and the one a system with working pkexec shows most
\* the executables check_system_ready looks for
required_commands == <<"wg", "wg-quick", "pkexec">>

\* a system where the tools are installed and /etc/wireguard exists:
\*   which        the executables shutil.which resolves
\*   config_dir   /etc/wireguard: "absent", "ok", or "unreadable" (no R_OK)
\*   transfer     what follows `transfer:` in the peer section of every
\*                interface `wg show` lists, "" for an interface without peer
Installed == [which |-> Range(required_commands), config_dir |-> "ok", transfer |-> ""]

AnyFailure ==
    [stderrs |-> StderrTexts, timeouts |-> TRUE, exceptions |-> ExceptionTexts] @@ Installed
PlainFailure ==
    [stderrs |-> {"Error message"}, timeouts |-> FALSE, exceptions |-> {}] @@ Installed

\* two reasons to fail, one the retry policy repeats and one it does not
TwoFailures ==
    [stderrs |-> {"Error message", "Authentication canceled"}, timeouts |-> FALSE,
     exceptions |-> {}] @@ Installed

\* what one invocation of pkexec <command> can do
Outcomes(command, ifaces) ==
    {[kind |-> "exit", code |-> 0, text |-> Stdout(command, ifaces)]}
    \cup {[kind |-> "exit", code |-> 1, text |-> e] : e \in env.stderrs}
    \cup (IF env.timeouts THEN {[kind |-> "timeout", code |-> 0, text |-> ""]} ELSE {})
    \cup {[kind |-> "exception", code |-> 0, text |-> e] : e \in env.exceptions}

Remove(seq, x) == SelectSeq(seq, LAMBDA y : y # x)

\* the tunnels after an invocation
Effect(command, o, ifaces) ==
    IF o.kind = "exit" /\ o.code = 0 /\ Len(command) = 3
    THEN IF command[2] = "up"
         THEN IF command[3] \in Range(ifaces) THEN ifaces ELSE Append(ifaces, command[3])
         ELSE Remove(ifaces, command[3])
    ELSE ifaces

----------------------------------------------------------------------------
(* Command runner *)

\* the severity class _run_command logs for a non-zero exit
LogClass(stderr) ==
    LET stderr_lower == Lower(stderr)
    IN  IF Contains("authentication canceled", stderr_lower)
           \/ Contains("not authorized", stderr_lower) THEN "authorization"
        ELSE IF Contains("command not found", stderr_lower) THEN "not_found"
        ELSE IF Contains("permission denied", stderr_lower) THEN "permission"
        ELSE "other"

TimeoutMessage(timeout) == "Taimaut (" \o IntStr(timeout) \o " sekund)"

\* a runner that does not look at the exit code
run_command_result_ignoring_code(o, timeout) ==
    CASE o.kind = "exit" -> Pair(TRUE, o.text)
      [] o.kind = "timeout" -> Pair(FALSE, TimeoutMessage(timeout))
      [] OTHER -> Pair(FALSE, o.text)

\* what _run_command returns for an outcome of subprocess.run
run_command_result(o, timeout) ==
    CASE o.kind = "exit" /\ o.code = 0 -> Pair(TRUE, o.text)
      [] o.kind = "exit" /\ o.code # 0 -> Pair(FALSE, o.text)
      [] o.kind = "timeout" -> Pair(FALSE, TimeoutMessage(timeout))
      [] OTHER -> Pair(FALSE, o.text)

\* a lock that excludes nobody
CanAcquireAny(t) == TRUE

\* a lock its owner cannot take again
CanAcquire_not_reentrant(t) == lock.owner = NoThread

\* with self._lock, for an RLock
CanAcquire(t) == lock.owner \in {NoThread, t}
Acquire(lk, t) == [owner |-> t, count |-> lk.count + 1]
Release(lk) == IF lk.count = 1 THEN [owner |-> NoThread, count |-> 0]
               ELSE [lk EXCEPT !.count = @ - 1]

----------------------------------------------------------------------------
(* Retry policy *)

\* a break that does not know the timeout
RetryStopsButForTimeout(output) ==
    LET output_lower == Lower(output)
    IN  \/ Contains("Permission denied", output_lower)
        \/ Contains("not found", output_lower)
        \/ Contains("authentication canceled", output_lower)

\* the break of _run_command_with_retry
RetryStops(output) ==
    LET output_lower == Lower(output)
    IN  \/ Contains("Taimaut", output)
        \/ Contains("Permission denied", output_lower)
        \/ Contains("not found", output_lower)
        \/ Contains("authentication canceled", output_lower)

\* every output a failed _run_command can return
FailureOutputs ==
    StderrTexts \cup ExceptionTexts \cup {"Error message"}
        \cup {TimeoutMessage(timeout_wg_show), TimeoutMessage(timeout_wg_quick),
              TimeoutMessage(timeout_check)}

\* RetryStops, evaluated once for every such output
RetryStopsOf == [o \in FailureOutputs |-> RetryStops(o)]

----------------------------------------------------------------------------
(* Threads *)

\* a thread that is in no call; the result of its last call and what that
\* call issued stay until it starts the next one
IdleThread == [
    pc |-> "idle",            \* idle | act_lock | run | exec | ret | gm_test | gm_new |
                              \*   gm_store | gm_ret
    op |-> "none",            \* the public operation being executed
    arg |-> "",               \* its profile_name
    phase |-> "",             \* position in the operation
    idx |-> 0,                \* loop position in the operation
    todo |-> <<>>,            \* profiles_to_deactivate
    operations |-> <<>>,      \* operations of turn_off_all
    held |-> FALSE,           \* inside activate_profile's `with self._lock`
    instance |-> NoInstance,  \* get_manager: the WireGuardManager() it has constructed
    infos |-> <<>>,           \* get_all_profiles_info: result
    status |-> "",            \*   status
    cmd |-> NoCommand,        \* _run_command_with_retry: command
    timeout |-> 0,            \*   timeout
    max |-> 0,                \*   max_retries
    attempt |-> 0,            \*   attempt
    last_error |-> "",        \*   last_error
    rc |-> Pair(FALSE, ""),   \*   success, output of the latest _run_command
    res |-> Pair(FALSE, ""),  \*   the pair it returned
    result |-> Pair(FALSE, ""), \* what the operation returned
    invocations |-> 0,        \* history: _run_command calls of this retry call
    sleeps |-> 0,             \* history: sleeps of this retry call
    issued |-> {},            \* history: kinds of command this operation invoked
    log |-> <<>>,             \* history: the retry calls of this operation that returned
    start |-> <<>>,           \* history: the tunnels when the operation was called
    prev |-> [op |-> "none", arg |-> "", result |-> Pair(FALSE, ""), ok |-> FALSE] ]
                              \* history: the operation before this one

\* entry of _run_command_with_retry(command, timeout, max)
BeginRetry(s, command, timeout, max) ==
    [s EXCEPT !.pc = "run",
              !.cmd = command, !.timeout = timeout, !.max = max,
              !.attempt = 0, !.last_error = "",
              !.rc = Pair(FALSE, ""), !.res = Pair(FALSE, ""),
              !.invocations = 0, !.sleeps = 0]

\* the operation returns: its frame is dropped, result and history stay
Finish(s, result) ==
    [IdleThread EXCEPT !.op = s.op, !.arg = s.arg, !.result = result, !.issued = s.issued,
                       !.log = s.log, !.start = s.start, !.prev = s.prev]

NewCall(op, arg) == [IdleThread EXCEPT !.op = op, !.arg = arg]

\* history: the operation a thread has returned from
Summary(s) ==
    [op |-> s.op, arg |-> s.arg, result |-> s.result,
     ok |-> \A i \in 1..Len(s.log) : s.log[i].ok]

\* a thread that was in state s starts op(arg)
CallAfter(s, op, arg) ==
    IF recording
    THEN [NewCall(op, arg) EXCEPT !.start = tunnels, !.prev = Summary(s)]
    ELSE NewCall(op, arg)

\* history: _run_command_with_retry(s.cmd, ...) returned res
Logged(s, res) ==
    IF recording THEN Append(s.log, [cmd |-> s.cmd, ok |-> res.ok, out |-> res.out])
    ELSE s.log

\* last_error keeps the first failure
next_last_error_first(last_error, output) == IF last_error = "" THEN output ELSE last_error

\* last_error after a failed attempt
next_last_error(last_error, output) == output

\* one attempt too many
retry_continues_one_more(attempt, max, output) == ~RetryStopsOf[output] /\ attempt < max

\* one attempt too few
retry_continues_one_less(attempt, max, output) == ~RetryStopsOf[output] /\ attempt + 2 < max

\* the loop of _run_command_with_retry goes on after a failure with output
retry_continues(attempt, max, output) == ~RetryStopsOf[output] /\ attempt + 1 < max

\* a loop that sleeps after every failure it does not stop on
sleeps_after_every_failure(attempt, max, output) == IF RetryStopsOf[output] THEN 0 ELSE 1

\* time.sleep(self.retry_delay) calls after a failed attempt with output
sleeps_after(attempt, max, output) ==
    IF ~RetryStopsOf[output] /\ attempt < max - 1 THEN 1 ELSE 0

\* _run_command_with_retry after an attempt returned r: it returns r on
\* success; on failure it sleeps if it is to, and returns last_error or tries
\* again
after_attempt(s, r) ==
    LET s1 == [s EXCEPT !.rc = r]
        err == next_last_error(s.last_error, r.out)
    IN  IF r.ok THEN [s1 EXCEPT !.pc = "ret", !.res = Pair(TRUE, r.out),
                                !.log = Logged(s, Pair(TRUE, r.out))]
        ELSE IF retry_continues(s.attempt, s.max, r.out)
             THEN [s1 EXCEPT !.pc = "run", !.last_error = err, !.attempt = @ + 1,
                             !.sleeps = @ + sleeps_after(s.attempt, s.max, r.out)]
             ELSE [s1 EXCEPT !.pc = "ret", !.last_error = err, !.res = Pair(FALSE, err),
                             !.sleeps = @ + sleeps_after(s.attempt, s.max, r.out),
                             !.log = Logged(s, Pair(FALSE, err))]

CommandKind(command) == IF command = WgShow THEN "show" ELSE command[2]

----------------------------------------------------------------------------
(* Status parser *)

\* the first profile of plist whose lower-case name is in the interface token
\* a match that tells upper case from lower case
RECURSIVE MatchProfileExact(_, _, _)
MatchProfileExact(plist, interface, i) ==
    IF i > Len(plist) THEN None
    ELSE IF Contains(plist[i], interface) THEN Some(plist[i])
    ELSE MatchProfileExact(plist, interface, i + 1)

RECURSIVE MatchProfile(_, _, _)
MatchProfile(plist, interface, i) ==
    IF i > Len(plist) THEN None
    ELSE IF Contains(Lower(plist[i]), Lower(interface)) THEN Some(plist[i])
    ELSE MatchProfile(plist, interface, i + 1)

RECURSIVE ScanLines(_, _, _)
ScanLines(plist, lines, i) ==
    IF i > Len(lines) THEN None
    ELSE IF Contains("interface:", Lower(lines[i]))
         THEN LET interface == Strip(Split(lines[i], ":")[2])
                  found == MatchProfile(plist, interface, 1)
              IN  IF found.some THEN found ELSE ScanLines(plist, lines, i + 1)
         ELSE ScanLines(plist, lines, i + 1)

\* get_active_profile after a successful `wg show`, self.profiles being plist
parse_active(plist, output) == ScanLines(plist, Split(Strip(output), "\n"), 1)

\* parse_active, evaluated once for every list and every output of `wg show`
ParseActiveOf ==
    [pl \in ProfileLists |->
        [out \in {ShowTextOf[a] : a \in TunnelLists(pl) \cup StatusLists}
                 \cup {ShowPeersOf[x][a] : x \in TransferLines, a \in PeerLists(pl)} |->
            parse_active(pl, out)]]

\* what get_active_profile returns for the pair the retry policy returned
derived_active(res) == IF res.ok THEN ParseActiveOf[profiles][res.out] ELSE None

\* a cache that forgets its hint when the query fails
cache_after_query_forgetting(res, cached) ==
    IF res.ok THEN ParseActiveOf[profiles][res.out] ELSE None

\* self._active_profile after get_active_profile
cache_after_query(res, cached) == IF res.ok THEN ParseActiveOf[profiles][res.out] ELSE cached

\* a status that is never ACTIVE
status_of_never_active(active, profile_name) ==
    IF ~check_profile_exists(profile_name) THEN "error" ELSE "inactive"

\* a status that is never ERROR
status_of_no_error(active, profile_name) ==
    IF active = Some(profile_name) THEN "active" ELSE "inactive"

\* a status taken from the cached hint when there is one
status_of_trusting_hint(active, profile_name) ==
    IF active_profile # None
    THEN IF active_profile = Some(profile_name) THEN "active" ELSE "inactive"
    ELSE IF active = Some(profile_name) THEN "active"
    ELSE IF ~check_profile_exists(profile_name) THEN "error"
    ELSE "inactive"

\* a status read off the tunnels, one by one
status_of_each_tunnel(active, profile_name) ==
    IF profile_name \in Range(tunnels) THEN "active"
    ELSE IF ~check_profile_exists(profile_name) THEN "error"
    ELSE "inactive"

\* get_profile_status, given what get_active_profile returned
status_of(active, profile_name) ==
    IF active = Some(profile_name) THEN "active"
    ELSE IF ~check_profile_exists(profile_name) THEN "error"
    ELSE "inactive"

----------------------------------------------------------------------------
(* get_all_profiles_info *)

\* str.split()[0] of a text that is not blank
FirstWord(s) ==
    LET t == Strip(s)
        stops == {i \in 1..Len(t) : IsSpace(Char(t, i))}
    IN  IF stops = {} THEN t
        ELSE SubSeq(t, 1, (CHOOSE i \in stops : \A j \in stops : i <= j) - 1)

\* line.split(':')[1].strip().split(',')
transfer_parts(line) == Split(Strip(Split(line, ":")[2]), ",")

\* the line is a transfer line with both amounts
is_transfer(line) == Contains("transfer:", Lower(line)) /\ Len(transfer_parts(line)) >= 2

rx_part(line) == Strip(transfer_parts(line)[1])
tx_part(line) == Strip(transfer_parts(line)[2])

\* the line assigns info.transfer_rx, info.transfer_tx
assigns_rx(line) == is_transfer(line) /\ Contains("received", rx_part(line))
assigns_tx(line) == is_transfer(line) /\ Contains("sent", tx_part(line))

\* the numbers of the byte counts _parse_transfer is given
TransferNumbers == {"0", "0.5", "1", "1.5", "1.001", "1.999"}

\* their units, as written, and the factors each stands for
TransferUnits == {
    <<"", <<>>>>,
    <<" KiB", <<1024>>>>, <<" MiB", <<1024, 1024>>>>, <<" GiB", <<1024, 1024, 1024>>>>,
    <<"kib", <<1024>>>>,
    <<"KB", <<1000>>>>, <<" MB", <<1000, 1000>>>>, <<" gb", <<1000, 1000, 1000>>>> }

\* byte counts: the text, the number in it and the factors of its unit
TransferCounts ==
    {[text |-> n \o u[1], number |-> n, factors |-> u[2]] :
        n \in TransferNumbers, u \in TransferUnits}
    \cup {[text |-> "123", number |-> "123", factors |-> <<>>],
          [text |-> "2.3 MiB", number |-> "2.3", factors |-> <<1024, 1024>>]}

\* texts that are no byte count
NoCounts == {"", "invalid", "received", "KiB", "1,5 KiB", "1.5 TiB", "92 B", "nan"}

TransferTexts == {c.text : c \in TransferCounts} \cup NoCounts

\* parse_transfer, evaluated once for every text
ParseTransferOf ==
    [v \in TransferTexts \cup {a.rx[1] : a \in TransferAmounts}
                         \cup {a.tx[1] : a \in TransferAmounts} |-> parse_transfer(v)]

\* transfer_rx, transfer_tx after the lines: each is 0 until a line assigns
\* it, and what the last such line assigns stays
counters_of(lines) ==
    [k \in {"rx", "tx"} |->
        LET at == {i \in 1..Len(lines) :
                      IF k = "rx" THEN assigns_rx(lines[i]) ELSE assigns_tx(lines[i])}
        IN  IF at = {} THEN 0
            ELSE Once(LAMBDA line :
                          ParseTransferOf[FirstWord(IF k = "rx" THEN rx_part(line)
                                                    ELSE tx_part(line))],
                      lines[CHOOSE i \in at : \A j \in at : j <= i])]

\* transfer_rx, transfer_tx after a successful `wg show`
parse_counters(output) ==
    Once(LAMBDA lines : counters_of(lines), Split(Strip(output), "\n"))

\* parse_counters, evaluated once for every output of `wg show`
ParseCountersOf ==
    [out \in {ShowTextOf[a] : a \in UNION {PeerLists(pl) : pl \in ProfileLists}}
             \cup {ShowPeersOf[x][a] : x \in TransferLines,
                                       a \in UNION {PeerLists(pl) : pl \in ProfileLists}} |->
        parse_counters(out)]

\* the profile the loop is at
info_profile(s) == profiles[s.idx]

\* its status, when get_profile_status has returned
info_status(s) == status_of(derived_active(s.res), info_profile(s))

\* a reader that asks for the counters of every profile
wants_transfer_always(status) == TRUE

\* the counters are asked for
wants_transfer(status) == status = "active"

\* ProfileInfo of the profile the loop is at
info_entry(s) ==
    LET c == IF s.phase = "transfer" /\ s.res.ok THEN ParseCountersOf[s.res.out]
             ELSE [rx |-> 0, tx |-> 0]
    IN  [name |-> info_profile(s),
         status |-> IF s.phase = "transfer" THEN s.status ELSE info_status(s),
         config_path |-> "/etc/wireguard/" \o info_profile(s) \o ".conf",
         transfer_rx |-> c.rx, transfer_tx |-> c.tx]

\* result[profile] = info
info_result(s) ==
    [p \in DOMAIN s.infos \cup {info_profile(s)} |->
        IF p = info_profile(s) THEN info_entry(s) ELSE s.infos[p]]

\* a retry call of get_all_profiles_info returned and another one follows
info_more(s) ==
    \/ s.phase = "status" /\ wants_transfer(info_status(s))
    \/ s.idx < Len(profiles)

\* the frame at that next call
info_next(s) ==
    IF s.phase = "status" /\ wants_transfer(info_status(s))
    THEN BeginRetry([s EXCEPT !.phase = "transfer", !.status = info_status(s)],
                    WgShow, timeout_wg_show, max_retries)
    ELSE BeginRetry([s EXCEPT !.phase = "status", !.status = "", !.idx = s.idx + 1,
                              !.infos = info_result(s)],
                    WgShow, timeout_wg_show, max_retries)

\* self._active_profile after that retry call
info_cache(s, cached) ==
    IF s.phase = "status" THEN cache_after_query(s.res, cached) ELSE cached

----------------------------------------------------------------------------
(* turn_off_all, between two deactivations *)

\* the list turn_off_all walks
TurnOffList == <<"App", "bomBox", "usa">>

\* operations after _deactivate_profile returned
turn_off_operations(s) ==
    Append(s.operations, [profile |-> TurnOffList[s.idx],
                          success |-> s.res.ok, message |-> s.res.out])

\* the loop ends at the first deactivation that failed
turn_off_next_fail_fast(s) ==
    IF ~s.res.ok THEN [s EXCEPT !.idx = Len(TurnOffList)]
    ELSE BeginRetry([s EXCEPT !.idx = s.idx + 1, !.operations = turn_off_operations(s)],
                    WgQuickDown(TurnOffList[s.idx + 1]), timeout_wg_quick, max_retries)

\* _deactivate_profile returned and another profile follows
turn_off_next(s) ==
    BeginRetry([s EXCEPT !.idx = s.idx + 1, !.operations = turn_off_operations(s)],
               WgQuickDown(TurnOffList[s.idx + 1]), timeout_wg_quick, max_retries)

----------------------------------------------------------------------------
(* activate_profile, under its lock *)

\* activate_profile without its lock
with_lock_skipped(lk, t) == lk

\* `with self._lock:` of activate_profile
with_lock_enter(lk, t) == Acquire(lk, t)

\* `with` leaves: the lock is released if it was taken
with_lock_exit(lk, held) == IF held THEN Release(lk) ELSE lk

\* a scan that asks for the status of the target as well
NextOther_with_target(p, i) == IF i >= Len(profiles) THEN 0 ELSE i + 1

\* index of the first profile other than p after position i, 0 if none
RECURSIVE NextOther(_, _)
NextOther(p, i) ==
    IF i >= Len(profiles) THEN 0
    ELSE IF profiles[i + 1] # p THEN i + 1
    ELSE NextOther(p, i + 1)

\* a step of a thread: its new frame, the cached hint, the lock, and whether
\* it went on past a failure
Step(s, cached, lk) == [s |-> s, cached |-> cached, lk |-> lk, skipped |-> FALSE]
Skipping(k, failed) == [k EXCEPT !.skipped = failed]

\* after the scan of the other profiles: the first deactivation, or the bring-up
after_scan(s, todo) ==
    IF todo # <<>>
    THEN BeginRetry([s EXCEPT !.phase = "down", !.idx = 1, !.todo = todo],
                    WgQuickDown(todo[1]), timeout_wg_quick, max_retries)
    ELSE BeginRetry([s EXCEPT !.phase = "up", !.idx = 0, !.todo = <<>>],
                    WgQuickUp(s.arg), timeout_wg_quick, max_retries)

\* get_profile_status(profile_name) returned: already active, or scan the others
activate_self_status(s, cached, lk) ==
    LET first == NextOther(s.arg, 0)
        hint == cache_after_query(s.res, cached)
    IN  IF status_of(derived_active(s.res), s.arg) = "active"
        THEN Step(Finish(s, Pair(TRUE, "Profil " \o s.arg \o " uzhe aktiven")),
                  hint, with_lock_exit(lk, s.held))
        ELSE Skipping(Step(IF first = 0 THEN after_scan(s, <<>>)
                           ELSE BeginRetry([s EXCEPT !.phase = "scan", !.idx = first],
                                           WgShow, timeout_wg_show, max_retries),
                           hint, lk),
                      ~s.res.ok)

\* the scan that deactivates nothing
activate_scan_nothing(s, cached, lk) ==
    LET next == NextOther(s.arg, s.idx)
    IN  Step(IF next = 0 THEN after_scan(s, s.todo)
             ELSE BeginRetry([s EXCEPT !.idx = next], WgShow, timeout_wg_show, max_retries),
             cache_after_query(s.res, cached), lk)

\* get_profile_status(profile) returned for another profile
activate_scan(s, cached, lk) ==
    LET profile == profiles[s.idx]
        todo == IF status_of(derived_active(s.res), profile) = "active"
                THEN Append(s.todo, profile) ELSE s.todo
        next == NextOther(s.arg, s.idx)
    IN  Skipping(Step(IF next = 0 THEN after_scan(s, todo)
                      ELSE BeginRetry([s EXCEPT !.idx = next, !.todo = todo],
                                      WgShow, timeout_wg_show, max_retries),
                      cache_after_query(s.res, cached), lk),
                 ~s.res.ok)

\* a failed deactivation ends the operation with its pair
activate_down_fail_fast(s, cached, lk) ==
    IF ~s.res.ok THEN Step(Finish(s, s.res), cached, with_lock_exit(lk, s.held))
    ELSE Step(IF s.idx < Len(s.todo)
              THEN BeginRetry([s EXCEPT !.idx = s.idx + 1],
                              WgQuickDown(s.todo[s.idx + 1]), timeout_wg_quick, max_retries)
              ELSE BeginRetry([s EXCEPT !.phase = "up", !.idx = 0, !.todo = <<>>],
                              WgQuickUp(s.arg), timeout_wg_quick, max_retries),
              cached, lk)

\* _deactivate_profile(profile) returned: its outcome is only logged
activate_down(s, cached, lk) ==
    Skipping(Step(IF s.idx < Len(s.todo)
                  THEN BeginRetry([s EXCEPT !.idx = s.idx + 1],
                                  WgQuickDown(s.todo[s.idx + 1]), timeout_wg_quick, max_retries)
                  ELSE BeginRetry([s EXCEPT !.phase = "up", !.idx = 0, !.todo = <<>>],
                                  WgQuickUp(s.arg), timeout_wg_quick, max_retries),
                  cached, lk),
             ~s.res.ok)

\* the hint is set whatever the bring-up returned
activate_up_always_hint(s, cached, lk) ==
    Step(Finish(s, s.res), Some(s.arg), with_lock_exit(lk, s.held))

\* _activate_profile(profile_name) returned: its pair is the result
activate_up(s, cached, lk) ==
    Step(Finish(s, s.res),
         IF s.res.ok THEN Some(s.arg) ELSE cached,
         with_lock_exit(lk, s.held))

\* what a thread does when _run_command_with_retry has returned, up to the
\* next point where it can block.  A status read and the end of turn_off_all
\* write self._active_profile without the lock: they stay at "ret", a step of
\* their own.
continue_call(s, cached, lk) ==
    CASE s.op = "activate_profile" /\ s.phase = "self" -> activate_self_status(s, cached, lk)
      [] s.op = "activate_profile" /\ s.phase = "scan" -> activate_scan(s, cached, lk)
      [] s.op = "activate_profile" /\ s.phase = "down" -> activate_down(s, cached, lk)
      [] s.op = "activate_profile" /\ s.phase = "up" -> activate_up(s, cached, lk)
      [] s.op = "turn_off_all" /\ s.idx < Len(TurnOffList) -> Step(turn_off_next(s), cached, lk)
      [] s.op = "get_all_profiles_info" /\ info_more(s) ->
            Step(info_next(s), info_cache(s, cached), lk)
      [] s.op = "get_wg_show_output" ->
            Step(Finish(s, IF s.res.ok THEN Strip(s.res.out)
                           ELSE "Oshibka polucheniya statusa: " \o s.res.out),
                 cached, lk)
      [] OTHER -> Step(s, cached, lk)

----------------------------------------------------------------------------
(* Initial states *)

\* what no action of the manager changes but get_manager and the info read
module == <<_profiles_cache, _manager_instance, instances>>

\* the state of the window
ui == <<_is_refreshing, _refresh_start_time, now, refresh_tasks, refresh_log>>

\* the window after __init__: no refresh has been asked for
NotRefreshing ==
    /\ _is_refreshing = FALSE
    /\ _refresh_start_time = NoTime
    /\ now = 0
    /\ refresh_tasks = [t \in Threads |-> NoTime]
    /\ refresh_log = ""

\* the manager of the process has been made, by the first get_manager
Constructed ==
    /\ _profiles_cache = <<>>
    /\ _manager_instance = 1
    /\ instances = 1
    /\ NotRefreshing

Init ==
    /\ profiles \in ProfileLists
    /\ fs \in FsChoices(profiles)
    /\ tunnels \in Arrangements(Interfaces(profiles), MaxInitUp)
    /\ initTunnels = tunnels
    /\ lock = [owner |-> NoThread, count |-> 0]
    /\ active_profile = None
    /\ th = [t \in Threads |-> IdleThread]
    /\ env = PlainFailure
    /\ calls = 0
    /\ skipped = FALSE
    /\ recording = FALSE
    /\ Constructed

----------------------------------------------------------------------------
(* _run_command and _run_command_with_retry *)

\* _run_command enters `with self._lock` and starts subprocess.run
CmdStart(t) ==
    /\ th[t].pc = "run"
    /\ CanAcquire(t)
    /\ lock' = Acquire(lock, t)
    /\ th' = [th EXCEPT ![t] = [@ EXCEPT !.pc = "exec",
                                          !.invocations = @ + 1,
                                          !.issued = @ \cup {CommandKind(th[t].cmd)}]]
    /\ UNCHANGED <<module, ui, recording, profiles, fs, tunnels, initTunnels, active_profile, env, calls, skipped>>

\* subprocess.run ends, _run_command returns and leaves the lock, the retry
\* loop decides, and the caller goes on to its next blocking point
CmdFinish(t) ==
    /\ th[t].pc = "exec"
    /\ \E o \in Outcomes(th[t].cmd, tunnels) :
          LET s1 == after_attempt(th[t], run_command_result(o, th[t].timeout))
              lk1 == Release(lock)
              k == IF s1.pc = "ret" THEN continue_call(s1, active_profile, lk1)
                   ELSE Step(s1, active_profile, lk1)
          IN  /\ tunnels' = Effect(th[t].cmd, o, tunnels)
              /\ th' = [th EXCEPT ![t] = k.s]
              /\ active_profile' = k.cached
              /\ lock' = k.lk
              /\ skipped' = (skipped \/ k.skipped)
    /\ UNCHANGED <<module, ui, recording, profiles, fs, initTunnels, env, calls>>

\* a thread may start a call when it is in none; threads are interchangeable,
\* so thread t makes its first call after thread t - 1 made its first
CanCall(t) ==
    /\ th[t].pc = "idle"
    /\ calls < MaxCalls
    /\ IF t = 1 THEN TRUE ELSE th[t - 1].op # "none"

\* a caller of _run_command_with_retry with its own timeout and max_retries
CallRetry(t) ==
    /\ CanCall(t)
    /\ \E m \in 1..MaxAttemptsArg :
          th' = [th EXCEPT ![t] =
                    BeginRetry(CallAfter(th[t], "run_command_with_retry", ""), WgShow, timeout_check, m)]
    /\ calls' = calls + 1
    /\ UNCHANGED <<module, ui, recording, profiles, fs, tunnels, initTunnels, lock, active_profile, env, skipped>>

ReturnRetry(t) ==
    /\ th[t].pc = "ret" /\ th[t].op = "run_command_with_retry"
    /\ th' = [th EXCEPT ![t] = Finish(@, @.res)]
    /\ UNCHANGED <<module, ui, recording, profiles, fs, tunnels, initTunnels, lock, active_profile, env, calls, skipped>>

----------------------------------------------------------------------------
(* Status reads *)

Args == ArgsFor(profiles)

CallGetActive(t) ==
    /\ CanCall(t)
    /\ th' = [th EXCEPT ![t] =
                  BeginRetry(CallAfter(th[t], "get_active_profile", ""), WgShow, timeout_wg_show, max_retries)]
    /\ calls' = calls + 1
    /\ UNCHANGED <<module, ui, recording, profiles, fs, tunnels, initTunnels, lock, active_profile, env, skipped>>

ReturnGetActive(t) ==
    /\ th[t].pc = "ret" /\ th[t].op = "get_active_profile"
    /\ active_profile' = cache_after_query(th[t].res, active_profile)
    /\ th' = [th EXCEPT ![t] = Finish(@, derived_active(@.res))]
    /\ UNCHANGED <<module, ui, recording, profiles, fs, tunnels, initTunnels, lock, env, calls, skipped>>

CallGetStatus(t) ==
    /\ CanCall(t)
    /\ \E p \in Args :
          th' = [th EXCEPT ![t] =
                    BeginRetry(CallAfter(th[t], "get_profile_status", p), WgShow, timeout_wg_show, max_retries)]
    /\ calls' = calls + 1
    /\ UNCHANGED <<module, ui, recording, profiles, fs, tunnels, initTunnels, lock, active_profile, env, skipped>>

ReturnGetStatus(t) ==
    /\ th[t].pc = "ret" /\ th[t].op = "get_profile_status"
    /\ active_profile' = cache_after_query(th[t].res, active_profile)
    /\ th' = [th EXCEPT ![t] = Finish(@, status_of(derived_active(@.res), @.arg))]
    /\ UNCHANGED <<module, ui, recording, profiles, fs, tunnels, initTunnels, lock, env, calls, skipped>>

CallGetOutput(t) ==
    /\ CanCall(t)
    /\ th' = [th EXCEPT ![t] =
                  BeginRetry(CallAfter(th[t], "get_wg_show_output", ""), WgShow, timeout_wg_show, max_retries)]
    /\ calls' = calls + 1
    /\ UNCHANGED <<module, ui, recording, profiles, fs, tunnels, initTunnels, lock, active_profile, env, skipped>>

----------------------------------------------------------------------------
(* get_all_profiles_info and _parse_transfer *)

CallGetAllInfo(t) ==
    /\ CanCall(t)
    /\ th' = [th EXCEPT ![t] =
                  BeginRetry([CallAfter(th[t], "get_all_profiles_info", "")
                                EXCEPT !.idx = 1, !.phase = "status"],
                             WgShow, timeout_wg_show, max_retries)]
    /\ calls' = calls + 1
    /\ UNCHANGED <<module, ui, recording, profiles, fs, tunnels, initTunnels, lock, active_profile, env, skipped>>

\* the last retry call returned: the result is cached and returned
ReturnGetAllInfo(t) ==
    /\ th[t].pc = "ret" /\ th[t].op = "get_all_profiles_info"
    /\ active_profile' = info_cache(th[t], active_profile)
    /\ _profiles_cache' = info_result(th[t])
    /\ th' = [th EXCEPT ![t] = Finish(@, info_result(@))]
    /\ UNCHANGED <<ui, _manager_instance, instances, recording, profiles, fs, tunnels, initTunnels, lock, env, calls, skipped>>

CallParseTransfer(t) ==
    /\ CanCall(t)
    /\ \E v \in TransferTexts :
          th' = [th EXCEPT ![t] = Finish(CallAfter(th[t], "_parse_transfer", v), ParseTransferOf[v])]
    /\ calls' = calls + 1
    /\ UNCHANGED <<module, ui, recording, profiles, fs, tunnels, initTunnels, lock, active_profile, env, skipped>>

----------------------------------------------------------------------------
(* Checks that run no command *)

DirectoryMissing == "Direktoriya konfiguratsii ne sushchestvuet: /etc/wireguard"
NoProfileFound == "Ne naiden ni odin profil WireGuard"

\* the problems check_system_ready collects; a directory that exists but
\* cannot be read is logged, not collected
system_checks(readable_needed) ==
    LET missing == SelectSeq(required_commands, LAMBDA c : c \notin env.which)
    IN  [i \in 1..Len(missing) |-> "Komanda " \o missing[i] \o " ne naidena"]
        \o (IF env.config_dir = "absent" THEN <<DirectoryMissing>>
            ELSE IF env.config_dir = "unreadable" /\ readable_needed
            THEN <<"Net prav na chtenie direktorii">>
            ELSE <<>>)
        \o (IF \E p \in Range(profiles) : check_profile_exists(p) THEN <<>>
            ELSE <<NoProfileFound>>)

\* a check that turns a directory it cannot read into a problem
check_system_ready_needs_readable ==
    LET checks == system_checks(TRUE)
    IN  IF checks # <<>> THEN Pair(FALSE, Join("; ", checks))
        ELSE Pair(TRUE, "Sistema gotova")

check_system_ready ==
    LET checks == system_checks(FALSE)
    IN  IF checks # <<>> THEN Pair(FALSE, Join("; ", checks))
        ELSE Pair(TRUE, "Sistema gotova")

\* the checks return without a blocking point
CallCheckExists(t) ==
    /\ CanCall(t)
    /\ \E p \in Args :
          th' = [th EXCEPT ![t] =
                    Finish(CallAfter(th[t], "check_profile_exists", p), check_profile_exists(p))]
    /\ calls' = calls + 1
    /\ UNCHANGED <<module, ui, recording, profiles, fs, tunnels, initTunnels, lock, active_profile, env, skipped>>

CallValidate(t) ==
    /\ CanCall(t)
    /\ \E p \in Args :
          th' = [th EXCEPT ![t] =
                    Finish(CallAfter(th[t], "validate_profile", p), validate_profile(p))]
    /\ calls' = calls + 1
    /\ UNCHANGED <<module, ui, recording, profiles, fs, tunnels, initTunnels, lock, active_profile, env, skipped>>

CallCheckSystemReady(t) ==
    /\ CanCall(t)
    /\ th' = [th EXCEPT ![t] =
                  Finish(CallAfter(th[t], "check_system_ready", ""), check_system_ready)]
    /\ calls' = calls + 1
    /\ UNCHANGED <<module, ui, recording, profiles, fs, tunnels, initTunnels, lock, active_profile, env, skipped>>

----------------------------------------------------------------------------
(* get_manager *)

CallGetManager(t) ==
    /\ CanCall(t)
    /\ th' = [th EXCEPT ![t] = [CallAfter(th[t], "get_manager", "") EXCEPT !.pc = "gm_test"]]
    /\ calls' = calls + 1
    /\ UNCHANGED <<module, ui, recording, profiles, fs, tunnels, initTunnels, lock, active_profile, env, skipped>>

\* if _manager_instance is None
GetManagerTest(t) ==
    /\ th[t].pc = "gm_test"
    /\ th' = [th EXCEPT ![t].pc = IF _manager_instance = NoInstance THEN "gm_new" ELSE "gm_ret"]
    /\ UNCHANGED <<module, ui, recording, profiles, fs, tunnels, initTunnels, lock, active_profile, env, calls, skipped>>

\* WireGuardManager(): the constructor reads the configuration and logs
GetManagerConstruct(t) ==
    /\ th[t].pc = "gm_new"
    /\ instances' = instances + 1
    /\ th' = [th EXCEPT ![t] = [@ EXCEPT !.pc = "gm_store", !.instance = instances + 1]]
    /\ UNCHANGED <<ui, _profiles_cache, _manager_instance, recording, profiles, fs, tunnels, initTunnels, lock, active_profile, env, calls, skipped>>

\* _manager_instance = <the new instance>
GetManagerStore(t) ==
    /\ th[t].pc = "gm_store"
    /\ _manager_instance' = th[t].instance
    /\ th' = [th EXCEPT ![t].pc = "gm_ret"]
    /\ UNCHANGED <<ui, _profiles_cache, instances, recording, profiles, fs, tunnels, initTunnels, lock, active_profile, env, calls, skipped>>

\* return _manager_instance
GetManagerReturn(t) ==
    /\ th[t].pc = "gm_ret"
    /\ th' = [th EXCEPT ![t] = Finish(@, _manager_instance)]
    /\ UNCHANGED <<module, ui, recording, profiles, fs, tunnels, initTunnels, lock, active_profile, env, calls, skipped>>

----------------------------------------------------------------------------
(* turn_off_all *)

CallTurnOffAll(t) ==
    /\ CanCall(t)
    /\ th' = [th EXCEPT ![t] =
                  BeginRetry([CallAfter(th[t], "turn_off_all", "") EXCEPT !.idx = 1],
                             WgQuickDown(TurnOffList[1]), timeout_wg_quick, max_retries)]
    /\ calls' = calls + 1
    /\ UNCHANGED <<module, ui, recording, profiles, fs, tunnels, initTunnels, lock, active_profile, env, skipped>>

\* the message of turn_off_all for its failed operations
turn_off_message(failed) ==
    "Oshibki pri otklyuchenii: "
        \o Join(", ", [i \in 1..Len(failed) |-> failed[i].profile \o ": " \o failed[i].message])

\* a turn_off_all that clears the hint whatever failed
turn_off_hint_cleared(failed, cached) == None

\* self._active_profile after turn_off_all, given its failed operations
turn_off_hint(failed, cached) == IF failed # <<>> THEN cached ELSE None

\* the last _deactivate_profile returned: the verdict, and the hint is
\* cleared on success
ReturnTurnOffAll(t) ==
    /\ th[t].pc = "ret" /\ th[t].op = "turn_off_all"
    /\ LET s == th[t]
           failed == SelectSeq(turn_off_operations(s), LAMBDA o : ~o.success)
       IN  /\ th' = [th EXCEPT ![t] =
                         Finish(s, IF failed # <<>> THEN Pair(FALSE, turn_off_message(failed))
                                   ELSE Pair(TRUE, "Vse profili otklyucheny"))]
           /\ active_profile' = turn_off_hint(failed, active_profile)
    /\ UNCHANGED <<module, ui, recording, profiles, fs, tunnels, initTunnels, lock, env, calls, skipped>>

----------------------------------------------------------------------------
(* activate_profile *)

CallActivate(t) ==
    /\ CanCall(t)
    /\ \E p \in Args :
          th' = [th EXCEPT ![t] = [CallAfter(th[t], "activate_profile", p) EXCEPT !.pc = "act_lock"]]
    /\ calls' = calls + 1
    /\ UNCHANGED <<module, ui, recording, profiles, fs, tunnels, initTunnels, lock, active_profile, env, skipped>>

\* the lock is taken; existence and validity are checked; the first status
\* query is set up
ActivateEnter(t) ==
    /\ th[t].pc = "act_lock"
    /\ CanAcquire(t)
    /\ LET s == th[t]
           lk == with_lock_enter(lock, t)
           held == lk # lock
           valid == validate_profile(s.arg)
       IN  IF ~check_profile_exists(s.arg)
           THEN /\ th' = [th EXCEPT ![t] =
                             Finish(s, Pair(FALSE, "Profil " \o s.arg \o " ne sushchestvuet"))]
                /\ lock' = with_lock_exit(lk, held)
           ELSE IF ~valid.ok
           THEN /\ th' = [th EXCEPT ![t] =
                             Finish(s, Pair(FALSE, "Profil " \o s.arg \o " nevaliden: " \o valid.out))]
                /\ lock' = with_lock_exit(lk, held)
           ELSE /\ th' = [th EXCEPT ![t] =
                             BeginRetry([s EXCEPT !.held = held, !.phase = "self"],
                                        WgShow, timeout_wg_show, max_retries)]
                /\ lock' = lk
    /\ UNCHANGED <<module, ui, recording, profiles, fs, tunnels, initTunnels, active_profile, env, calls, skipped>>

----------------------------------------------------------------------------
(* Specifications *)

----------------------------------------------------------------------------
(* The window: _refresh_data and its refresh_task *)

\* seconds in a tick of the clock
TickSeconds == 30

\* time passes
Tick ==
    /\ now < MaxTime
    /\ now' = now + 1
    /\ UNCHANGED <<module, _is_refreshing, _refresh_start_time, refresh_tasks, refresh_log,
                   recording, profiles, fs, tunnels, initTunnels, lock, active_profile, th, env,
                   calls, skipped>>

\* elapsed = time.time() - self._refresh_start_time, in seconds
elapsed == (now - _refresh_start_time) * TickSeconds

\* _refresh_data returns at once: a refresh is on and has not hung
refresh_skips ==
    _is_refreshing /\ (IF _refresh_start_time # NoTime THEN ~(elapsed > 60) ELSE TRUE)

\* threads that run no refresh_task
FreeThreads == {t \in DOMAIN th : refresh_tasks[t] = NoTime}

\* _refresh_data, called by the timer, by F5, by the button or after an
\* operation, on the main thread
RefreshData ==
    /\ IF refresh_skips
       THEN /\ refresh_log' = "skipped"
            /\ UNCHANGED <<_is_refreshing, _refresh_start_time, refresh_tasks, th>>
       ELSE \/ \E t \in FreeThreads :
                  /\ \A u \in FreeThreads : t <= u
                  /\ _is_refreshing' = TRUE
                  /\ _refresh_start_time' = now
                  /\ refresh_tasks' = [refresh_tasks EXCEPT ![t] = now]
                  /\ th' = [th EXCEPT ![t] = NewCall("refresh_task", "")]
                  /\ refresh_log' = IF _is_refreshing THEN "hung" ELSE "started"
            \* thread.start() raised
            \/ /\ _is_refreshing' = FALSE
               /\ _refresh_start_time' = now
               /\ refresh_log' = "not started"
               /\ UNCHANGED <<refresh_tasks, th>>
    /\ UNCHANGED <<module, now, recording, profiles, fs, tunnels, initTunnels, lock,
                   active_profile, env, calls, skipped>>

\* refresh_task goes on to its next call of the manager
TaskCall(t) ==
    /\ refresh_tasks[t] # NoTime
    /\ \/ th[t].op = "refresh_task" /\ CallGetActive(t)
       \/ th[t].op = "get_active_profile" /\ CallGetAllInfo(t)
       \/ th[t].op = "get_all_profiles_info" /\ CallGetOutput(t)

\* refresh_task ends after its three calls, having updated the window or in
\* its `except`, and runs its `finally`
TaskEnd(t) ==
    /\ refresh_tasks[t] # NoTime
    /\ th[t].pc = "idle" /\ th[t].op = "get_wg_show_output"
    /\ _is_refreshing' = FALSE
    /\ _refresh_start_time' = NoTime
    /\ refresh_tasks' = [refresh_tasks EXCEPT ![t] = NoTime]
    /\ refresh_log' \in {"updated", "error"}
    /\ UNCHANGED <<module, now, recording, profiles, fs, tunnels, initTunnels, lock,
                   active_profile, th, env, calls, skipped>>

Next ==
    \E t \in DOMAIN th :
        \/ CmdStart(t) \/ CmdFinish(t)
        \/ CallGetActive(t) \/ ReturnGetActive(t)
        \/ CallGetStatus(t) \/ ReturnGetStatus(t)
        \/ CallGetOutput(t)
        \/ CallTurnOffAll(t) \/ ReturnTurnOffAll(t)
        \/ CallActivate(t) \/ ActivateEnter(t)

\* threads calling the public operations of one manager
Spec == Init /\ [][Next]_vars

\* one caller of the retry policy, on a system that fails in every way
InitRetry ==
    /\ profiles = DefaultProfiles
    /\ fs \in FsChoices(profiles)
    /\ tunnels \in Arrangements(Interfaces(profiles), MaxInitUp)
    /\ initTunnels = tunnels
    /\ lock = [owner |-> NoThread, count |-> 0]
    /\ active_profile = None
    /\ th = [t \in {1} |-> IdleThread]
    /\ env = AnyFailure
    /\ calls = 0
    /\ skipped = FALSE
    /\ recording = FALSE
    /\ Constructed

NextRetry ==
    \E t \in DOMAIN th :
        \/ CallRetry(t)
        \/ CmdStart(t)
        \/ CmdFinish(t)
        \/ ReturnRetry(t)

SpecRetry == InitRetry /\ [][NextRetry]_vars

\* one thread calling a public operation, on a system where several tunnels
\* may have been brought up from outside; the thread keeps the history of its
\* operation, and there is room for one call
InitSeq ==
    /\ profiles \in ProfileLists
    /\ fs \in FsChoices(profiles)
    /\ tunnels \in Arrangements(Interfaces(profiles), MaxInitUpSeq)
    /\ initTunnels = tunnels
    /\ lock = [owner |-> NoThread, count |-> 0]
    /\ active_profile = None
    /\ th = [t \in {1} |-> IdleThread]
    /\ env = TwoFailures
    /\ calls = MaxCalls - 1
    /\ skipped = FALSE
    /\ recording = TRUE
    /\ Constructed

NextSeq ==
    \E t \in DOMAIN th :
        \/ CmdStart(t)
        \/ CmdFinish(t)
        \/ CallGetActive(t)
        \/ ReturnGetActive(t)
        \/ CallGetStatus(t)
        \/ ReturnGetStatus(t)
        \/ CallTurnOffAll(t)
        \/ ReturnTurnOffAll(t)
        \/ CallActivate(t)
        \/ ActivateEnter(t)

SpecSeq == InitSeq /\ [][NextSeq]_vars

\* one thread reading the status twice, one read after the other
InitTwice ==
    /\ profiles \in ProfileLists
    /\ fs \in FsChoices(profiles)
    /\ tunnels \in Arrangements(Interfaces(profiles), MaxInitUpSeq)
    /\ initTunnels = tunnels
    /\ lock = [owner |-> NoThread, count |-> 0]
    /\ active_profile = None
    /\ th = [t \in {1} |-> IdleThread]
    /\ env = PlainFailure
    /\ calls = MaxCalls - 2
    /\ skipped = FALSE
    /\ recording = TRUE
    /\ Constructed

NextTwice ==
    \E t \in DOMAIN th :
        \/ CmdStart(t)
        \/ CmdFinish(t)
        \/ CallGetActive(t)
        \/ ReturnGetActive(t)
        \/ CallGetStatus(t)
        \/ ReturnGetStatus(t)

SpecTwice == InitTwice /\ [][NextTwice]_vars

\* one thread making two calls, one after the other: an operation that
\* changes tunnels or reads the status, then another one
InitRound ==
    /\ profiles \in ProfileLists
    /\ fs \in FsChoices(profiles)
    /\ tunnels \in Arrangements(Interfaces(profiles), MaxInitUp)
    /\ initTunnels = tunnels
    /\ lock = [owner |-> NoThread, count |-> 0]
    /\ active_profile = None
    /\ th = [t \in {1} |-> IdleThread]
    /\ env = PlainFailure
    /\ calls = MaxCalls - 2
    /\ skipped = FALSE
    /\ recording = TRUE
    /\ Constructed

NextRound ==
    \E t \in DOMAIN th :
        \/ CmdStart(t)
        \/ CmdFinish(t)
        \/ CallGetActive(t)
        \/ ReturnGetActive(t)
        \/ CallGetStatus(t)
        \/ ReturnGetStatus(t)
        \/ CallTurnOffAll(t)
        \/ ReturnTurnOffAll(t)
        \/ CallActivate(t)
        \/ ActivateEnter(t)

SpecRound == InitRound /\ [][NextRound]_vars

\* threads calling the public operations of one manager with the default
\* profiles; a thread that can take its next step takes it: a command returns
\* or hits its timeout, and a thread waiting for a free lock gets it
InitLive ==
    /\ profiles = DefaultProfiles
    /\ fs \in FsChoices(profiles)
    /\ tunnels \in {<<>>, <<profiles[1]>>}
    /\ initTunnels = tunnels
    /\ lock = [owner |-> NoThread, count |-> 0]
    /\ active_profile = None
    /\ th = [t \in Threads |-> IdleThread]
    /\ env = PlainFailure
    /\ calls = 0
    /\ skipped = FALSE
    /\ recording = FALSE
    /\ Constructed

\* the steps of thread t inside a call
Proceed(t) ==
    \/ CmdStart(t)
    \/ CmdFinish(t)
    \/ ActivateEnter(t)
    \/ ReturnGetActive(t)
    \/ ReturnGetStatus(t)
    \/ ReturnTurnOffAll(t)

NextLive ==
    \E t \in DOMAIN th :
        \/ Proceed(t)
        \/ CallGetActive(t)
        \/ CallGetStatus(t)
        \/ CallTurnOffAll(t)
        \/ CallActivate(t)

SpecLive == InitLive /\ [][NextLive]_vars /\ \A t \in Threads : WF_vars(Proceed(t))

\* the window refreshing on its timer: every refresh_task makes its three
\* calls of the manager on a thread of its own
InitRefresh ==
    /\ profiles = DefaultProfiles
    /\ fs \in FsChoices(profiles)
    /\ tunnels = <<>>
    /\ initTunnels = tunnels
    /\ lock = [owner |-> NoThread, count |-> 0]
    /\ active_profile = None
    /\ th = [t \in Threads |-> IdleThread]
    /\ env = PlainFailure
    /\ calls = MaxCalls - 3 * MaxRefreshes
    /\ skipped = FALSE
    /\ recording = FALSE
    /\ Constructed

NextRefresh ==
    \/ Tick
    \/ RefreshData
    \/ \E t \in DOMAIN th :
          \/ TaskCall(t)
          \/ CmdStart(t)
          \/ CmdFinish(t)
          \/ ReturnGetActive(t)
          \/ ReturnGetAllInfo(t)
          \/ TaskEnd(t)

SpecRefresh == InitRefresh /\ [][NextRefresh]_vars

\* one thread deriving the active profile from interfaces of any name
InitStatus ==
    /\ profiles \in ProfileLists
    /\ fs \in FsChoices(profiles)
    /\ tunnels \in StatusLists
    /\ initTunnels = tunnels
    /\ lock = [owner |-> NoThread, count |-> 0]
    /\ active_profile = None
    /\ th = [t \in {1} |-> IdleThread]
    /\ env = PlainFailure
    /\ calls = MaxCalls - 1
    /\ skipped = FALSE
    /\ recording = TRUE
    /\ Constructed

NextStatus ==
    \E t \in DOMAIN th :
        \/ CmdStart(t)
        \/ CmdFinish(t)
        \/ CallGetActive(t)
        \/ ReturnGetActive(t)

SpecStatus == InitStatus /\ [][NextStatus]_vars

\* systems with any of the tools missing and the directory in any state
Systems ==
    {[PlainFailure EXCEPT !.which = w, !.config_dir = d] :
        w \in SUBSET Range(required_commands), d \in {"absent", "ok", "unreadable"}}

\* one thread making one check, on any system and with artifacts in any state
InitFiles ==
    /\ profiles \in ProfileLists
    /\ env \in Systems
    /\ fs \in IF env.config_dir = "absent" THEN {NoFiles} ELSE AnyFs(profiles)
    /\ tunnels = <<>>
    /\ initTunnels = tunnels
    /\ lock = [owner |-> NoThread, count |-> 0]
    /\ active_profile = None
    /\ th = [t \in {1} |-> IdleThread]
    /\ calls = MaxCalls - 1
    /\ skipped = FALSE
    /\ recording = FALSE
    /\ Constructed

NextFiles ==
    \E t \in DOMAIN th :
        \/ CallCheckExists(t)
        \/ CallValidate(t)
        \/ CallCheckSystemReady(t)

SpecFiles == InitFiles /\ [][NextFiles]_vars

\* systems whose interfaces have a peer, or none
Peered == {[PlainFailure EXCEPT !.transfer = x] : x \in TransferLines \cup {""}}

\* one thread reading the information of all profiles, or parsing a byte count
InitInfo ==
    /\ profiles \in ProfileLists
    /\ fs \in FsChoices(profiles)
    /\ tunnels \in PeerLists(profiles)
    /\ initTunnels = tunnels
    /\ lock = [owner |-> NoThread, count |-> 0]
    /\ active_profile = None
    /\ th = [t \in {1} |-> IdleThread]
    /\ env \in Peered
    /\ calls = MaxCalls - 1
    /\ skipped = FALSE
    /\ recording = TRUE
    /\ Constructed

NextInfo ==
    \E t \in DOMAIN th :
        \/ CmdStart(t)
        \/ CmdFinish(t)
        \/ CallGetAllInfo(t)
        \/ ReturnGetAllInfo(t)
        \/ CallGetStatus(t)
        \/ ReturnGetStatus(t)
        \/ CallParseTransfer(t)

SpecInfo == InitInfo /\ [][NextInfo]_vars

\* threads of a process that has made no manager yet, calling get_manager
InitManager ==
    /\ profiles \in ProfileLists
    /\ fs \in FsChoices(profiles)
    /\ tunnels \in Arrangements(Interfaces(profiles), MaxInitUp)
    /\ initTunnels = tunnels
    /\ lock = [owner |-> NoThread, count |-> 0]
    /\ active_profile = None
    /\ th = [t \in Threads |-> IdleThread]
    /\ env = PlainFailure
    /\ calls = 0
    /\ skipped = FALSE
    /\ recording = FALSE
    /\ _profiles_cache = <<>>
    /\ _manager_instance = NoInstance
    /\ instances = 0
    /\ NotRefreshing

NextManager ==
    \E t \in DOMAIN th :
        \/ CallGetManager(t)
        \/ GetManagerTest(t)
        \/ GetManagerConstruct(t)
        \/ GetManagerStore(t)
        \/ GetManagerReturn(t)

SpecManager == InitManager /\ [][NextManager]_vars

----------------------------------------------------------------------------
(* Properties *)

\* configured profiles whose tunnel is up
UpProfiles == Range(tunnels) \cap Range(profiles)
InitUpProfiles == Range(initTunnels) \cap Range(profiles)

\* t is inside subprocess.run
Running(t) == th[t].pc = "exec"

\* t is past the entry of activate_profile and has not returned
InActivate(t) == th[t].op = "activate_profile" /\ th[t].pc \in {"run", "exec"}

\* t has returned from op
Returned(t, op) == th[t].op = op /\ th[t].pc = "idle"

StatusReads ==
    {"get_active_profile", "get_profile_status", "get_all_profiles_info", "get_wg_show_output"}

C2_OneCommandAtATime ==
    Cardinality({t \in DOMAIN th : Running(t)}) <= 1

\* a thread runs a command while another waits at the lock of _run_command
C2_OneRunsOneWaits ==
    \E t, u \in DOMAIN th : t # u /\ Running(t) /\ th[u].pc = "run"

\* C3: while an activate_profile call is between its first command and its
\* return, no other activate_profile call runs a command.
C3_ActivationsDoNotInterleave ==
    \A t, u \in DOMAIN th :
        (t # u /\ InActivate(t) /\ th[t].issued # {} /\ th[u].op = "activate_profile")
            => ~Running(u)

\* an activation runs its second kind of command while another waits at the
\* entry
C3_SecondActivationWaits ==
    \E t, u \in DOMAIN th :
        /\ t # u
        /\ InActivate(t) /\ Running(t) /\ Cardinality(th[t].issued) >= 2
        /\ th[u].op = "activate_profile" /\ th[u].pc = "act_lock"

\* C4, as claimed: no command of an activate_profile call runs while a
\* turn_off_all call is between two of its `wg-quick down`, and no command of
\* a turn_off_all call runs while an activate_profile call is between two of
\* its commands.
C4_ActivateAndTurnOffDoNotInterleave ==
    \A t, u \in DOMAIN th :
        /\ ~ /\ th[t].op = "turn_off_all" /\ th[t].pc = "run" /\ th[t].issued # {}
             /\ th[u].op = "activate_profile" /\ Running(u)
        /\ ~ /\ t # u /\ InActivate(t) /\ th[t].issued # {}
             /\ th[u].op = "turn_off_all" /\ Running(u)

\* C5: while an activate_profile call is past its entry and has not
\* returned, no status read of another thread runs a command.
C5_ReadsWaitForActivation ==
    \A a, r \in DOMAIN th :
        (a # r /\ InActivate(a) /\ th[r].op \in StatusReads) => ~Running(r)

\* a status read waits at the lock while an activation is between two commands
C5_ReadBlocked ==
    \E a, r \in DOMAIN th :
        /\ a # r
        /\ InActivate(a) /\ th[a].issued # {} /\ th[a].pc = "run"
        /\ th[r].op \in StatusReads /\ th[r].pc = "run"

\* the failure classes the retry policy is to stop on
TimeoutIndicator(output) == Contains("Taimaut", output)
PermissionDeniedText(output) == Contains("permission denied", Lower(output))
NotFoundText(output) == Contains("not found", Lower(output))
AuthorizationCancelledText(output) == Contains("authentication canceled", Lower(output))
NotAuthorizedText(output) == Contains("not authorized", Lower(output))

NonRetryableClass(output) ==
    \/ TimeoutIndicator(output)
    \/ PermissionDeniedText(output)
    \/ NotFoundText(output)
    \/ AuthorizationCancelledText(output)

Unclassified(output) == ~NonRetryableClass(output) /\ ~NotAuthorizedText(output)

\* C6, as claimed: when the first failure output is of a non-retryable
\* class, no second attempt is set up, and the call returns that output after
\* its single invocation.
C6_NonRetryableInvokedOnce ==
    \A t \in DOMAIN th :
        /\ (th[t].pc = "run" /\ th[t].attempt = 1) => ~NonRetryableClass(th[t].last_error)
        /\ (th[t].pc = "ret" /\ th[t].invocations = 1 /\ ~th[t].res.ok)
               => th[t].res.out = th[t].rc.out

\* C7: a success is returned at once with its output, after exactly one
\* invocation more than the failures before it; and a failure with
\* unclassified output is returned only when max_retries attempts were made,
\* so k such failures with k + 1 <= max_retries are followed by attempt k + 1.
C7_SuccessAfterRetries ==
    \A t \in DOMAIN th :
        /\ th[t].rc.ok =>
              /\ th[t].pc = "ret"
              /\ th[t].res = Pair(TRUE, th[t].rc.out)
              /\ th[t].invocations = th[t].attempt + 1
              /\ th[t].sleeps = th[t].attempt
        /\ (th[t].pc = "ret" /\ ~th[t].res.ok /\ Unclassified(th[t].res.out))
              => th[t].invocations = th[t].max

\* two failures, then a success at the third of three attempts
C7_ThirdAttemptSucceeds ==
    \E t \in DOMAIN th :
        /\ th[t].pc = "ret" /\ th[t].res.ok
        /\ th[t].max = 3 /\ th[t].invocations = 3 /\ th[t].attempt = 2

\* C8: a call never makes more than max_retries invocations, and every
\* outcome of an invocation, an exception of the invocation layer included,
\* leads to another attempt or to the return of a pair.
C8_AtMostMaxAttempts ==
    \A t \in DOMAIN th :
        /\ th[t].invocations <= th[t].max
        /\ th[t].pc = "run" => th[t].invocations < th[t].max
        /\ th[t].pc = "exec" =>
              \A o \in Outcomes(th[t].cmd, tunnels) :
                  LET s1 == after_attempt(th[t], run_command_result(o, th[t].timeout))
                  IN  /\ s1.pc \in {"run", "ret"}
                      /\ s1.pc = "ret" => s1.res.ok \in BOOLEAN

\* every allowed attempt was made, and the last one raised in the invocation layer
C8_ExhaustedByException ==
    \E t \in DOMAIN th :
        /\ th[t].pc = "ret" /\ ~th[t].res.ok
        /\ th[t].max >= 2 /\ th[t].invocations = th[t].max
        /\ th[t].res.out \in ExceptionTexts

\* C9: a failure returned by the retry policy carries the output of the last
\* invocation it made.
C9_FailureCarriesLastOutput ==
    \A t \in DOMAIN th :
        (th[t].pc = "ret" /\ ~th[t].res.ok)
            => /\ th[t].invocations >= 1
               /\ ~th[t].rc.ok
               /\ th[t].res.out = th[t].rc.out

\* a retryable failure, then a timeout: the call stops early on the second output
C9_StoppedEarlyOnSecond ==
    \E t \in DOMAIN th :
        /\ th[t].pc = "ret" /\ ~th[t].res.ok
        /\ th[t].invocations = 2 /\ th[t].max > 2
        /\ TimeoutIndicator(th[t].res.out)

\* a name that is in no list and has no artifact
NonExistent(name) == name \notin Range(profiles) /\ fs[name] = "absent"

\* C10: activate_profile for a profile that does not exist invokes no
\* command and returns failure with a message saying it does not exist.
C10_NonexistentProfileNoCommand ==
    \A t \in DOMAIN th :
        (th[t].op = "activate_profile" /\ NonExistent(th[t].arg))
            => /\ th[t].issued = {}
               /\ th[t].pc \in {"act_lock", "idle"}
               /\ th[t].pc = "idle" =>
                     /\ ~th[t].result.ok
                     /\ Contains("ne sushchestvuet", th[t].result.out)

\* such a call has returned
C10_NonexistentReturned ==
    \E t \in DOMAIN th :
        Returned(t, "activate_profile") /\ NonExistent(th[t].arg) /\ ~th[t].result.ok

----------------------------------------------------------------------------
(* Properties of single operations *)

\* the commands an operation has run to their return, in order
CmdsOf(log) == [i \in 1..Len(log) |-> log[i].cmd]

\* what a status query that succeeds derives from the interfaces in ifaces
DerivedFrom(ifaces) == ParseActiveOf[profiles][ShowTextOf[ifaces]]

\* C11: activate_profile(p), when the tunnels that are up derive p as the
\* active profile and its status query succeeds, returns (True, "already
\* active"), has invoked nothing but that one query (no up, no down), and
\* leaves the tunnels as they were.
C11_AlreadyActiveIsNoOp ==
    \A t \in DOMAIN th :
        (/\ th[t].op = "activate_profile"
         /\ Len(th[t].log) >= 1 /\ th[t].log[1].ok
         /\ DerivedFrom(th[t].start) = Some(th[t].arg))
            => /\ th[t].pc = "idle"
               /\ th[t].result.ok
               /\ Contains("uzhe aktiven", th[t].result.out)
               /\ CmdsOf(th[t].log) = <<WgShow>>
               /\ th[t].issued = {"show"}
               /\ tunnels = th[t].start

\* the profile was up beside another tunnel, and the call returned as a no-op
C11_ActiveBesideAnother ==
    \E t \in DOMAIN th :
        /\ Returned(t, "activate_profile") /\ th[t].result.ok
        /\ th[t].arg \in Range(th[t].start) /\ Len(th[t].start) = 2
        /\ DerivedFrom(th[t].start) = Some(th[t].arg)
        /\ Len(th[t].log) = 1

\* a profile whose artifact exists and can be read but lacks its section
Invalid(name) == fs[name] = "nosection"

\* C12: activate_profile(p) for a profile that exists but fails validation
\* invokes no command and returns failure with a message that holds the
\* reason the validator gave.
C12_InvalidProfileNoCommand ==
    \A t \in DOMAIN th :
        (th[t].op = "activate_profile" /\ Invalid(th[t].arg))
            => /\ th[t].issued = {}
               /\ th[t].log = <<>>
               /\ th[t].pc \in {"act_lock", "idle"}
               /\ th[t].pc = "idle" =>
                     /\ ~th[t].result.ok
                     /\ Contains("Otsutstvuet sektsiya [Interface]", th[t].result.out)
                     /\ tunnels = th[t].start

\* such a call has returned, for a configured profile
C12_InvalidReturned ==
    \E t \in DOMAIN th :
        /\ Returned(t, "activate_profile") /\ Invalid(th[t].arg)
        /\ th[t].arg \in Range(profiles)
        /\ ~th[t].result.ok

IsDown(cmd) == Len(cmd) = 3 /\ cmd[2] = "down"
IsUp(cmd) == Len(cmd) = 3 /\ cmd[2] = "up"

\* the last retry call an operation made
LastOf(log) == log[Len(log)]

\* C13: an activate_profile(p) in which a deactivation failed still returns
\* only after `wg-quick up p`, which is the last command it runs, and its
\* result is the pair of that command.
C13_FailedDownDoesNotAbort ==
    \A t \in DOMAIN th :
        (/\ Returned(t, "activate_profile")
         /\ \E i \in 1..Len(th[t].log) : IsDown(th[t].log[i].cmd) /\ ~th[t].log[i].ok)
            => /\ LastOf(th[t].log).cmd = WgQuickUp(th[t].arg)
               /\ th[t].result = Pair(LastOf(th[t].log).ok, LastOf(th[t].log).out)

\* a deactivation failed and the bring-up after it succeeded
C13_UpAfterFailedDown ==
    \E t \in DOMAIN th :
        /\ Returned(t, "activate_profile") /\ th[t].result.ok
        /\ \E i \in 1..Len(th[t].log) : IsDown(th[t].log[i].cmd) /\ ~th[t].log[i].ok
        /\ th[t].arg \in Range(tunnels)

\* every status query the operation made succeeded
QueriesSucceeded(log) == \A i \in 1..Len(log) : log[i].cmd = WgShow => log[i].ok

\* C14, as claimed: once activate_profile(p) has run its `wg-quick up p`,
\* all its status queries having succeeded, it has run `wg-quick down q` for
\* every other configured profile q whose tunnel was up, also when several
\* were up at once.
C14_EveryOtherUpTunnelDeactivated ==
    \A t \in DOMAIN th :
        (/\ th[t].op = "activate_profile"
         /\ th[t].log # <<>> /\ IsUp(LastOf(th[t].log).cmd)
         /\ QueriesSucceeded(th[t].log))
            => \A q \in (Range(th[t].start) \cap Range(profiles)) \ {th[t].arg} :
                   \E i \in 1..Len(th[t].log) : th[t].log[i].cmd = WgQuickDown(q)

\* the step in which thread t returns from the bring-up of activate_profile
BringUpReturns(t) ==
    /\ th[t].op = "activate_profile" /\ th[t].phase = "up" /\ th[t].pc = "exec"
    /\ th'[t].pc = "idle"

\* C15: the step that ends the bring-up of activate_profile(p) returns the
\* pair _run_command_with_retry gave for `wg-quick up p`, and sets the cached
\* hint to p if that pair is a success and leaves it as it was otherwise.
C15_BringUpVerdictVerbatim ==
    [][\A t \in DOMAIN th :
          BringUpReturns(t) =>
              LET e == LastOf(th'[t].log)
              IN  /\ e.cmd = WgQuickUp(th[t].arg)
                  /\ th'[t].result = Pair(e.ok, e.out)
                  /\ active_profile' = IF e.ok THEN Some(th[t].arg) ELSE active_profile]_vars

\* the bring-up failed after another profile had been derived as active: the
\* hint still names that other profile
C15_FailedUpKeepsHint ==
    \E t \in DOMAIN th :
        /\ Returned(t, "activate_profile") /\ ~th[t].result.ok
        /\ th[t].log # <<>> /\ IsUp(LastOf(th[t].log).cmd)
        /\ active_profile.some /\ active_profile.val # th[t].arg

\* C16: turn_off_all returns only after a `wg-quick down` for every profile
\* of its list, whatever failed before, and brings nothing up; it returns
\* success exactly when every deactivation succeeded, and otherwise a message
\* that names every failed profile with its reason and no other profile.
C16_TurnOffAllCollects ==
    \A t \in DOMAIN th :
        Returned(t, "turn_off_all") =>
            LET log == th[t].log
            IN  /\ CmdsOf(log) = [i \in 1..Len(TurnOffList) |-> WgQuickDown(TurnOffList[i])]
                /\ th[t].issued = {"down"}
                /\ th[t].result.ok <=> \A i \in 1..Len(log) : log[i].ok
                /\ ~th[t].result.ok =>
                      \A i \in 1..Len(log) :
                          IF log[i].ok
                          THEN ~Contains(TurnOffList[i] \o ":", th[t].result.out)
                          ELSE Contains(TurnOffList[i] \o ": " \o log[i].out, th[t].result.out)

\* the first and the last deactivation failed for different reasons, the one
\* between them succeeded
C16_FirstAndLastFailed ==
    \E t \in DOMAIN th :
        /\ Returned(t, "turn_off_all") /\ ~th[t].result.ok
        /\ Len(th[t].log) = 3
        /\ ~th[t].log[1].ok /\ th[t].log[2].ok /\ ~th[t].log[3].ok
        /\ th[t].log[1].out # th[t].log[3].out

\* C17, as claimed: the commands turn_off_all has run when it returns are
\* `wg-quick down` for the profiles of the configured list, each once, in the
\* order of that list, and nothing else.
C17_TurnOffAllWalksConfiguredList ==
    \A t \in DOMAIN th :
        Returned(t, "turn_off_all") =>
            CmdsOf(th[t].log) = [i \in 1..Len(profiles) |-> WgQuickDown(profiles[i])]

\* C18: get_profile_status(p) returns ACTIVE when its one status query
\* succeeded and the tunnels that are up derive p; otherwise ERROR when
\* check_profile_exists(p) is false; otherwise INACTIVE.
C18_StatusRule ==
    \A t \in DOMAIN th :
        Returned(t, "get_profile_status") =>
            LET derived == IF th[t].log[1].ok THEN DerivedFrom(th[t].start) ELSE None
            IN  /\ CmdsOf(th[t].log) = <<WgShow>>
                /\ th[t].result =
                      IF derived = Some(th[t].arg) THEN "active"
                      ELSE IF ~check_profile_exists(th[t].arg) THEN "error"
                      ELSE "inactive"

\* ERROR for a name that does not exist, read while a configured tunnel is up
C18_ErrorWhileAnotherActive ==
    \E t \in DOMAIN th :
        /\ Returned(t, "get_profile_status")
        /\ th[t].result = "error"
        /\ th[t].log[1].ok /\ DerivedFrom(th[t].start) # None

\* thread t has returned from its second get_profile_status of the same
\* profile in a row; nothing else ran in between
ReadTwice(t) ==
    /\ Returned(t, "get_profile_status")
    /\ th[t].prev.op = "get_profile_status"
    /\ th[t].prev.arg = th[t].arg

Least(S) == CHOOSE x \in S : \A y \in S : x <= y

\* positions of the configured profiles whose name is, letter case aside,
\* within the interface name
ProfilesWithin(plist, interface) ==
    {i \in 1..Len(plist) : Contains(Lower(plist[i]), Lower(interface))}

\* the first interface in order that holds a configured profile name gives
\* the first such profile in configured order
ExpectedActive(plist, ifaces) ==
    LET hits == {j \in 1..Len(ifaces) : ProfilesWithin(plist, ifaces[j]) # {}}
    IN  IF hits = {} THEN None
        ELSE Some(plist[Least(ProfilesWithin(plist, ifaces[Least(hits)]))])

\* C20: get_active_profile, when its status query succeeds, returns for the
\* interfaces the output lists in order the first configured profile whose
\* name is, case-insensitively, within the first interface name that holds
\* any, and none when no interface name holds one.
C20_ActiveProfileDerivation ==
    \A t \in DOMAIN th :
        (Returned(t, "get_active_profile") /\ th[t].log[1].ok)
            => /\ th[t].result = ExpectedActive(profiles, th[t].start)
               /\ active_profile = th[t].result

\* 'interface: wg0' then 'interface: wg-bombox' gives bomBox
C20_SecondInterfaceMatches ==
    \E t \in DOMAIN th :
        /\ Returned(t, "get_active_profile") /\ th[t].log[1].ok
        /\ profiles = DefaultProfiles
        /\ th[t].start = <<"wg0", "wg-bombox">>
        /\ th[t].result = Some("bomBox")

----------------------------------------------------------------------------
(* Properties of the status query, the files and the command runner *)

\* C21: when get_active_profile returns after its status query failed, it
\* returns none, the cached hint is what it was before, and the operation
\* has made one call of the retry policy, for `wg show` with the status timeout
C21_FailedQueryKeepsHint ==
    [][\A t \in DOMAIN th :
          (/\ th[t].op = "get_active_profile" /\ th[t].pc = "ret"
           /\ ~th[t].res.ok /\ th'[t].pc = "idle")
          => /\ th'[t].result = None
             /\ active_profile' = active_profile
             /\ th[t].cmd = WgShow /\ th[t].timeout = timeout_wg_show
             /\ th[t].max = max_retries
             /\ th'[t].issued = {"show"}
             /\ Len(th'[t].log) = 1]_vars

\* a failed query returned none while the hint of the read before it stayed
C21_HintSurvivedFailure ==
    \E t \in DOMAIN th :
        /\ Returned(t, "get_active_profile")
        /\ th[t].log # <<>> /\ ~th[t].log[1].ok
        /\ th[t].result = None
        /\ active_profile.some

\* the artifact of name, as the filesystem has it
Artifact(name) == fs[name]
Configured(name) == name \in Range(profiles)

\* what check_profile_exists is to return for name
Exists(name) == Configured(name) \/ Artifact(name) \notin {"absent", "noaccess", "oserror"}

\* C22: validate_profile reports a profile that does not exist as invalid
\* with a message that it does not exist; one whose artifact is readable and
\* lacks [Interface] as invalid with the missing-section message, configured
\* or not; one whose artifact is readable and holds it as (True, 'OK'); and
\* one whose artifact cannot be read for a permission or file-not-found error
\* as valid
C22_ValidateCases ==
    \A t \in DOMAIN th :
        Returned(t, "validate_profile") =>
            LET p == th[t].arg
                r == th[t].result
            IN  /\ ~Exists(p) => ~r.ok /\ Contains("ne sushchestvuet", r.out)
                /\ (Exists(p) /\ Artifact(p) = "nosection")
                        => r = Pair(FALSE, "Otsutstvuet sektsiya [Interface]")
                /\ (Exists(p) /\ Artifact(p) = "ok") => r = Pair(TRUE, "OK")
                /\ (Exists(p) /\ Artifact(p) \in {"unreadable", "noaccess", "absent"}) => r.ok

\* a configured profile whose artifact lacks [Interface] was found invalid
C22_ConfiguredWithoutSection ==
    \E t \in DOMAIN th :
        /\ Returned(t, "validate_profile")
        /\ Configured(th[t].arg) /\ Artifact(th[t].arg) = "nosection"
        /\ ~th[t].result.ok

\* C23: check_profile_exists is true for every configured name whatever the
\* filesystem does; for another name it is true when the artifact exists and
\* false when it does not or when the check raises a permission error or any
\* other exception
C23_ExistsCases ==
    \A t \in DOMAIN th :
        Returned(t, "check_profile_exists") =>
            LET p == th[t].arg
            IN  /\ Configured(p) => th[t].result = TRUE
                /\ (~Configured(p) /\ Artifact(p) \in {"noaccess", "oserror", "absent"})
                        => th[t].result = FALSE
                /\ (~Configured(p)
                     /\ Artifact(p) \in {"ok", "nosection", "unreadable", "undecodable"})
                        => th[t].result = TRUE

\* a configured name was found to exist though looking for its artifact raises
C23_ConfiguredBehindClosedDirectory ==
    \E t \in DOMAIN th :
        /\ Returned(t, "check_profile_exists")
        /\ Configured(th[t].arg) /\ Artifact(th[t].arg) = "noaccess"
        /\ th[t].result = TRUE

\* C29: check_system_ready reports ready exactly when wg, wg-quick and pkexec
\* are all resolvable, the configuration directory exists, and some
\* configured profile passes check_profile_exists; a directory that exists
\* and cannot be read does not count against it; it runs no command
C29_ReadyIff ==
    \A t \in DOMAIN th :
        Returned(t, "check_system_ready") =>
            /\ th[t].result.ok <=>
                    /\ {"wg", "wg-quick", "pkexec"} \subseteq env.which
                    /\ env.config_dir # "absent"
                    /\ \E p \in Range(profiles) : Exists(p)
            /\ th[t].issued = {}
            /\ lock.owner = NoThread

\* ready on a system whose configuration directory cannot be read
C29_ReadyWithUnreadableDirectory ==
    \E t \in DOMAIN th :
        /\ Returned(t, "check_system_ready")
        /\ env.config_dir = "unreadable"
        /\ th[t].result = Pair(TRUE, "Sistema gotova")

\* the pair C24 requires of _run_command for what the process did
Required(o, r) ==
    CASE o.kind = "exit" /\ o.code = 0 -> r = Pair(TRUE, o.text)
      [] o.kind = "exit" /\ o.code # 0 -> r = Pair(FALSE, o.text)
      [] o.kind = "timeout" -> ~r.ok /\ TimeoutIndicator(r.out)
      [] OTHER -> r = Pair(FALSE, o.text)

\* C24: _run_command ends in a pair for every outcome of the process: exit 0
\* gives (True, stdout), another exit code (False, stderr), a timeout a
\* failure that names the timeout, any other exception (False, its text);
\* and when it has returned the lock is free again
C24_RunCommandTotal ==
    [][\A t \in DOMAIN th :
          (th[t].pc = "exec" /\ th'[t].pc # "exec")
          => /\ \E o \in Outcomes(th[t].cmd, tunnels) : Required(o, th'[t].rc)
             /\ lock' = [owner |-> NoThread, count |-> 0]]_vars

\* an exception of subprocess.run came back as a failure, the lock is free
C24_ExceptionReturned ==
    \E t \in DOMAIN th :
        /\ th[t].pc \in {"run", "ret"}
        /\ th[t].rc = Pair(FALSE, "Unexpected error")
        /\ lock.owner = NoThread

\* C25: a command that timed out is not tried again: whatever the number of
\* attempts allowed, the retry policy returns the timeout failure at once,
\* without a sleep and without another invocation
C25_TimeoutNeverRetried ==
    \A t \in DOMAIN th :
        (th[t].op = "run_command_with_retry" /\ th[t].pc \in {"run", "ret"}
         /\ ~th[t].rc.ok /\ TimeoutIndicator(th[t].rc.out))
        => /\ th[t].pc = "ret"
           /\ th[t].res = Pair(FALSE, th[t].rc.out)
           /\ th[t].invocations = th[t].attempt + 1
           /\ th[t].sleeps = th[t].attempt

\* the first of several attempts allowed timed out and was the last
C25_FirstAttemptTimedOut ==
    \E t \in DOMAIN th :
        /\ th[t].op = "run_command_with_retry" /\ th[t].pc = "ret"
        /\ th[t].max = MaxAttemptsArg
        /\ th[t].invocations = 1 /\ th[t].sleeps = 0
        /\ TimeoutIndicator(th[t].res.out)

\* C30, as claimed: get_manager constructs at most one WireGuardManager and
\* every call returns that one, also when the first calls come from several
\* threads at once
C30_OneManagerInstance ==
    /\ instances <= 1
    /\ \A t, u \in DOMAIN th :
          (Returned(t, "get_manager") /\ Returned(u, "get_manager"))
              => th[t].result = th[u].result

----------------------------------------------------------------------------
(* Properties of the profile information *)

\* (q + r / den) * k1 * k2 ..., rounded down, in whole numbers
RECURSIVE ScaledDown(_, _, _, _)
ScaledDown(q, r, den, factors) ==
    IF factors = <<>> THEN q
    ELSE LET k == Head(factors)
         IN  ScaledDown(q * k + (r * k) \div den, (r * k) % den, den, Tail(factors))

\* floor(number * k1 * k2 ...) for a number written in decimal
Bytes(number, factors) ==
    LET lit == Literal(number)
    IN  ScaledDown(lit.num \div lit.den, lit.num % lit.den, lit.den, factors)

UnitFactors ==
    [u \in {"B", "KiB", "MiB", "GiB"} |->
        CASE u = "B" -> <<>>
          [] u = "KiB" -> <<1024>>
          [] u = "MiB" -> <<1024, 1024>>
          [] OTHER -> <<1024, 1024, 1024>>]

\* C26, as claimed: for the active profile get_all_profiles_info turns the
\* amounts of the line 'transfer: X U1 received, Y U2 sent' into bytes, X
\* scaled by U1 and Y scaled by U2
C26_TransferScaledByUnit ==
    \A t \in DOMAIN th :
        (Returned(t, "get_all_profiles_info") /\ QueriesSucceeded(th[t].log)
         /\ env.transfer # "")
        => \A p \in DOMAIN th[t].result : \A a \in TransferAmounts :
              (th[t].result[p].status = "active" /\ TransferLine(a) = env.transfer)
              => /\ th[t].result[p].transfer_rx = Bytes(a.rx[1], UnitFactors[a.rx[2]])
                 /\ th[t].result[p].transfer_tx = Bytes(a.tx[1], UnitFactors[a.tx[2]])

\* C27, as claimed: _parse_transfer gives floor(number * 1024^k) for a number
\* with KiB, MiB or GiB, floor(number * 1000^k) with KB, MB or GB,
\* floor(number) for a plain number, in any case of letters, and 0 for a
\* text that is no byte count
C27_ParseTransferExact ==
    \A t \in DOMAIN th :
        Returned(t, "_parse_transfer") =>
            /\ \A c \in TransferCounts :
                  c.text = th[t].arg => th[t].result = Bytes(c.number, c.factors)
            /\ th[t].arg \in NoCounts => th[t].result = 0

\* C28: get_all_profiles_info returns one ProfileInfo for each configured
\* profile and no other, and an entry whose status is not ACTIVE has
\* transfer_rx = transfer_tx = 0
C28_OneInfoPerProfile ==
    \A t \in DOMAIN th :
        Returned(t, "get_all_profiles_info") =>
            /\ DOMAIN th[t].result = Range(profiles)
            /\ _profiles_cache = th[t].result
            /\ \A p \in DOMAIN th[t].result :
                  /\ th[t].result[p].name = p
                  /\ th[t].result[p].status # "active"
                        => /\ th[t].result[p].transfer_rx = 0
                           /\ th[t].result[p].transfer_tx = 0

\* an ACTIVE entry with counters beside an entry that is not ACTIVE, while
\* the tunnels of both are up
C28_CountersOnlyOnActive ==
    \E t \in DOMAIN th :
        /\ Returned(t, "get_all_profiles_info")
        /\ \E p, q \in DOMAIN th[t].result :
              /\ {p, q} \subseteq Range(tunnels)
              /\ th[t].result[p].status = "active" /\ th[t].result[p].transfer_rx > 0
              /\ th[t].result[q].status = "inactive" /\ th[t].result[q].transfer_tx = 0

----------------------------------------------------------------------------
(* Properties of the cached hint and of one activation *)

\* C31, as claimed: self._active_profile is written only by a thread that
\* holds self._lock, i.e. every step that changes it is taken by a thread
\* inside the `with self._lock` of activate_profile.
C31_HintWrittenUnderLock ==
    [][active_profile' # active_profile
          => \E t \in DOMAIN th : th'[t] # th[t] /\ th[t].held /\ lock.owner = t]_vars

\* the commands of the retry calls an operation has made or set up, in order
AllCmds(s) == CmdsOf(s.log) \o (IF s.pc \in {"run", "exec"} THEN <<s.cmd>> ELSE <<>>)

\* C32: within one activate_profile(p), no `wg-quick down` follows a
\* `wg-quick up`, the only bring-up is `wg-quick up p` and there is at most
\* one retry call for it, and no `wg-quick down p` is run for the target.
C32_DownsThenOneUp ==
    \A t \in DOMAIN th :
        th[t].op = "activate_profile" =>
            LET cmds == AllCmds(th[t])
            IN  /\ \A i, j \in 1..Len(cmds) : i < j => ~(IsUp(cmds[i]) /\ IsDown(cmds[j]))
                /\ \A i \in 1..Len(cmds) : IsUp(cmds[i]) => cmds[i] = WgQuickUp(th[t].arg)
                /\ Cardinality({i \in 1..Len(cmds) : IsUp(cmds[i])}) <= 1
                /\ \A i \in 1..Len(cmds) : cmds[i] # WgQuickDown(th[t].arg)

\* the target's tunnel was up behind another one, whose profile the queries
\* derived: that one was brought down, then the target was brought up
C32_TargetUpBehindAnother ==
    \E t \in DOMAIN th :
        /\ Returned(t, "activate_profile")
        /\ Len(th[t].start) = 2 /\ th[t].start[2] = th[t].arg
        /\ \E i \in 1..Len(th[t].log) : IsDown(th[t].log[i].cmd)
        /\ IsUp(LastOf(th[t].log).cmd)

----------------------------------------------------------------------------
(* Properties of the retry policy: delays and authorization *)

\* C33: _run_command_with_retry has slept once for every attempt but the
\* latest one: not before the first attempt, once between two consecutive
\* attempts, and not after the attempt it returns from, be that a success,
\* the last allowed attempt or a failure that stops the loop early.
C33_OneSleepBetweenAttempts ==
    \A t \in DOMAIN th :
        /\ th[t].pc = "run" => th[t].sleeps = th[t].invocations
        /\ th[t].pc \in {"exec", "ret"} => th[t].sleeps = th[t].invocations - 1

\* every allowed attempt failed: three attempts, two sleeps
C33_ExhaustedAfterTwoSleeps ==
    \E t \in DOMAIN th :
        /\ th[t].pc = "ret" /\ ~th[t].res.ok
        /\ th[t].max = 3 /\ th[t].invocations = 3 /\ th[t].sleeps = 2
        /\ ~RetryStopsOf[th[t].res.out]

\* C37, as claimed: after a failure whose stderr says 'not authorized', which
\* _run_command logs in its authorization class, _run_command_with_retry sets
\* up no further attempt, whatever max_retries is.
C37_NotAuthorizedInvokedOnce ==
    \A t \in DOMAIN th :
        (th[t].pc = "run" /\ th[t].attempt >= 1)
            => ~(NotAuthorizedText(th[t].last_error)
                 /\ LogClass(th[t].last_error) = "authorization")

----------------------------------------------------------------------------
(* Properties of turn_off_all and of the round trip *)

\* C34, as claimed: in the step in which turn_off_all returns success, no
\* configured profile's tunnel is up, whatever list is configured and whatever
\* other threads call; only the manager changes tunnels.
C34_TurnOffAllLeavesNothingUp ==
    [][\A t \in DOMAIN th :
          (/\ th[t].op = "turn_off_all" /\ th[t].pc = "ret"
           /\ th'[t].pc = "idle" /\ th'[t].result.ok)
              => Range(tunnels') \cap Range(profiles) = {}]_vars

\* C39: the step in which turn_off_all returns success sets the cached hint
\* to none; every other step of a turn_off_all call, the return of a failure
\* included, leaves the hint as it was.
C39_HintClearedIffSuccess ==
    [][\A t \in DOMAIN th :
          th'[t].op = "turn_off_all" =>
              active_profile' = IF th[t].pc = "ret" /\ th'[t].result.ok THEN None
                                ELSE active_profile]_vars

\* a deactivation failed, and the hint an earlier call had stored is still there
C39_HintSurvivedFailedTurnOff ==
    \E t \in DOMAIN th :
        /\ Returned(t, "turn_off_all") /\ ~th[t].result.ok
        /\ th[t].prev.op \in {"activate_profile", "get_active_profile"}
        /\ active_profile # None

\* thread t has returned from a call made right after an activate_profile
\* that brought its configured profile up and returned success, and the
\* status query of the call succeeded
AfterBringUp(t) ==
    /\ th[t].pc = "idle"
    /\ th[t].prev.op = "activate_profile" /\ th[t].prev.result = Pair(TRUE, "")
    /\ th[t].prev.arg \in Range(profiles)
    /\ th[t].log # <<>> /\ th[t].log[1].ok

\* C35, as claimed: after activate_profile(p) brought p up and returned
\* success, with no tunnel change since, a get_active_profile whose query
\* succeeds returns p, get_profile_status(p) returns ACTIVE, and a second
\* activate_profile(p) returns as the already-active no-op.
C35_RoundTrip ==
    \A t \in DOMAIN th :
        AfterBringUp(t) =>
            /\ th[t].op = "get_active_profile" => th[t].result = Some(th[t].prev.arg)
            /\ (th[t].op = "get_profile_status" /\ th[t].arg = th[t].prev.arg)
                  => th[t].result = "active"
            /\ (th[t].op = "activate_profile" /\ th[t].arg = th[t].prev.arg)
                  => /\ th[t].result.ok
                     /\ Contains("uzhe aktiven", th[t].result.out)
                     /\ CmdsOf(th[t].log) = <<WgShow>>

----------------------------------------------------------------------------
(* Properties of the reported statuses *)

ReportedStatuses == {"active", "inactive", "error"}

\* C38: the result of get_all_profiles_info, read while the tunnels do not
\* change, holds at most one profile with status ACTIVE, whichever of its
\* status queries failed; and neither it nor get_profile_status reports a
\* status other than ACTIVE, INACTIVE and ERROR.
C38_AtMostOneActiveReported ==
    \A t \in DOMAIN th :
        /\ Returned(t, "get_all_profiles_info") =>
              /\ Cardinality({p \in DOMAIN th[t].result :
                                 th[t].result[p].status = "active"}) <= 1
              /\ \A p \in DOMAIN th[t].result : th[t].result[p].status \in ReportedStatuses
        /\ Returned(t, "get_profile_status") => th[t].result \in ReportedStatuses

\* two configured tunnels are up and a status query of the call failed: one
\* profile is reported ACTIVE
C38_OneActiveOfTwoUp ==
    \E t \in DOMAIN th :
        /\ Returned(t, "get_all_profiles_info")
        /\ Cardinality(Range(th[t].start) \cap Range(profiles)) = 2
        /\ tunnels = th[t].start
        /\ \E i \in 1..Len(th[t].log) : ~th[t].log[i].ok
        /\ Cardinality({p \in DOMAIN th[t].result : th[t].result[p].status = "active"}) = 1

----------------------------------------------------------------------------
(* Termination and the lock *)

\* C36: every public operation terminates and leaves the lock free, given that
\* every command returns or hits its timeout: a thread that is in no call owns
\* no lock, the lock is free when every thread is in no call, and a thread that
\* is in a call, alone or next to other threads in activate_profile,
\* turn_off_all and status reads, is eventually in none.
C36_TerminatesLockFree ==
    /\ [](\A t \in Threads : th[t].pc = "idle" => lock.owner # t)
    /\ []((\A t \in Threads : th[t].pc = "idle") => lock = [owner |-> NoThread, count |-> 0])
    /\ \A t \in Threads : (th[t].pc # "idle") ~> (th[t].pc = "idle")

\* activate_profile runs a command: it holds the lock twice, and another
\* thread waits for it
C36_LockTakenAgain ==
    \E t, u \in Threads :
        /\ th[t].op = "activate_profile" /\ th[t].pc = "exec" /\ lock = [owner |-> t, count |-> 2]
        /\ th[u].pc \in {"run", "act_lock"}

----------------------------------------------------------------------------
(* Properties of the window's refresh *)

\* a refresh_task started less than 60 seconds ago is running
YoungTaskRunning ==
    \E u \in DOMAIN th :
        refresh_tasks[u] # NoTime /\ (now - refresh_tasks[u]) * TickSeconds < 60

\* C40: the refresh is single-flight: a _refresh_data call made while a
\* refresh_task started less than 60 seconds ago is still running starts no
\* task; and _is_refreshing is false once the task has ended, normally or by
\* an exception, or once its thread could not be started.
C40_RefreshSingleFlight ==
    /\ [][(\E t \in DOMAIN th : refresh_tasks[t] = NoTime /\ refresh_tasks'[t] # NoTime)
             => ~YoungTaskRunning]_vars
    /\ [](refresh_log \in {"updated", "error", "not started"} => ~_is_refreshing)

====
